---- MODULE Spec2Model ----
(***************************************************************************)
(* A model of the per-host state and statistics engine of the health      *)
(* monitor: Host (src/host.go), its helpers (src/unnamed/part_017) and    *)
(* the probe step doPing (src/lib/checks.go).                             *)
(*                                                                         *)
(* Time is counted in ticks.  A time.Time is the number of ticks since    *)
(* the epoch of the run, a time.Duration a number of ticks, and a nil     *)
(* *time.Time is NoTime.  A float64 that is the quotient of two integers  *)
(* is kept as the pair of its numerator and denominator, so that 0/0      *)
(* (NaN) stays distinguishable from every number.                         *)
(***************************************************************************)
EXTENDS Integers, Sequences, FiniteSets, TLC

VARIABLES
    host,         \* the Host under observation (a record of its fields)
    now,          \* the wall clock, time.Now()
    last,         \* history: the last completed probe, or NoProbe
    added,        \* history: every elapsed time passed to AddTiming
    outageStart,  \* history: when the first failure of the open outage was recorded
    outageSum,    \* history: the summed length of the completed outages
    outages,      \* history: the number of completed outages
    ret,          \* the last statistic call and what it returned, or NoCall
    chosts,       \* Checks.hosts: one entry per configured host
    startPc,      \* where Checks.Start() is
    stopPc,       \* where Checks.Stop() is
    wg,           \* the counter of Start's sync.WaitGroup
    tickPending,  \* ticker.C holds a tick
    inflight,     \* per host, the number of probe goroutines running
    begin,        \* per host, when the running probe began
    round,        \* history: the number of rounds begun
    issued,       \* history: per host, the number of probes started
    outcome,      \* history: per host, what its last probe came back with
    roundAtStop,  \* history: the rounds begun when Stop() was called, or NoRound
    stopInRound,  \* history: Stop() was called while a probe of every host was in flight
    running,      \* Checks.running of the scheduler with the flag and the lock
    lock,         \* the number of read locks held on its Checks.lock
    statusPc,     \* where its Status() is: 0, or the index of the host it reads
    pending,      \* per host, the elapsed time doPing has still to record, or NoTime
    probePc,      \* per host, where its doPing is once Ping() has come back
    statusHost,   \* the receiver of Host.Status: the copy of the Host, or NoHost
    statusAt,     \* where Host.Status is, or "none"
    dq,           \* a DurationQueue: Head, Tail and Length
    nodes,        \* the durationNodes allocated, by address
    pushed,       \* history: every value passed to Push
    popped,       \* history: every value Pop returned
    config,       \* the Config main runs with
    file,         \* the config file on disk: its modification time and content
    config_last_write,    \* _config_last_write, or NoTime for nil
    config_did_change,    \* _config_did_change
    should_watch_config,  \* _should_watch_config
    host_data,    \* _host_data: per host its hostData, or NoHostData
    latch,        \* the counter of main's sync.WaitGroup
    mainPc,       \* where main is
    pingPc,       \* per host, where its pingServer goroutine is
    notified,     \* history: per host, the calls of notification()
    reloadFailed, \* history: the last call of reloadConfig returned the old Config
    reloads,      \* history: the calls of reloadConfig that returned a new Config
    main_x        \* main's x in its loop over config.Hosts that starts the goroutines, or 0

\* the variables of the single host and its statistics
hostVars == <<host, last, added, outageStart, outageSum, outages, ret>>

\* the variables of the scheduler
checksVars == <<chosts, startPc, stopPc, wg, tickPending, inflight, begin,
                round, issued, outcome, roundAtStop, stopInRound>>

\* the variables of the scheduler with the flag and the lock
statusVars == <<running, lock, statusPc, pending, probePc, statusHost, statusAt>>

\* the variables of the duration queue
queueVars == <<dq, nodes, pushed, popped>>

\* the variables of the standalone monitor
monitorVars == <<config, file, config_last_write, config_did_change,
                 should_watch_config, host_data, latch, mainPc, pingPc,
                 notified, reloadFailed, reloads,
                   main_x>>

vars == <<hostVars, now, checksVars, statusVars, queueVars, monitorVars>>

----------------------------------------------------------------------------
(* Bounds of the model *)

\* the clock stops at MaxTime ticks
MaxTime == 8
\* a probe takes 1..MaxElapsed ticks
MaxElapsed == 2
\* hosts are created with a window capacity in 1..MaxStats
MaxStats == 3
\* ticks per millisecond (time.Millisecond, scaled down)
Millisecond == 3
\* the ticker of the scheduler fires up to MaxTicks times
MaxTicks == 2
\* windows of the statistics specification hold up to MaxWindow samples
MaxWindow == 5
\* samples of the statistics specification are 0..MaxSample ticks
MaxSample == 2
\* hosts of the status-line specification keep up to MaxRenderWindow samples
MaxRenderWindow == 6

----------------------------------------------------------------------------
(* Values *)

\* a nil *time.Time
NoTime == -1

\* http.StatusOK
StatusOK == 200

NoProbe == [kind |-> "none", status |-> 0, elapsed |-> 0, err |-> FALSE]

NoCall == [op |-> "none", p |-> 0, ok |-> TRUE, value |-> 0]

\* Stop() has not been called on a running Checks
NoRound == -1

\* config.Hosts
ConfigHosts == <<"a", "b", "c">>

\* a nil *durationNode
Nil == 0

\* the zero DurationQueue
EmptyQueue == [Head |-> Nil, Tail |-> Nil, Length |-> 0]

\* no probe of the host has returned yet
NoOutcome == [kind |-> "none", status |-> 0]

\* What the probes of the scheduler come back with
ProbeResults ==
    {[kind |-> "response", status |-> 200], [kind |-> "timeout", status |-> 0]}

\* What req.ExecuteWithMeta() can come back with: a transport error, a
\* timeout (an error of the http client), or a response with a status code.
PingResults ==
    {[kind |-> "error", status |-> 0], [kind |-> "timeout", status |-> 0]}
    \cup {[kind |-> "response", status |-> s] : s \in {101, 200, 204, 299, 300, 500}}

\* the hosts the configurations of the standalone monitor name
MonitorHosts == {"a", "b"}

\* Config{}: the zero Config
NoConfig == [Hosts |-> <<>>, ShowNotification |-> FALSE]

\* the configurations a command line or a config file can give
MonitorConfigs ==
    {[Hosts |-> hs, ShowNotification |-> n] : hs \in {<<"a">>, <<"a", "b">>}, n \in BOOLEAN}

\* no config file was named on the command line
NoFile == [mtime |-> NoTime, valid |-> FALSE, content |-> NoConfig]

\* no entry in _host_data
NoHostData == [Host |-> "", IsUp |-> FALSE, DownAt |-> NoTime, Stats |-> <<>>,
               Error |-> FALSE, PingCount |-> 0]

\* &hostData{Host: host, Stats: &DurationQueue{}}
NewHostData(h) == [Host |-> h, IsUp |-> FALSE, DownAt |-> NoTime, Stats |-> <<>>,
                   Error |-> FALSE, PingCount |-> 0]

\* What req.FetchRawResponse() comes back with
FetchResults ==
    {[kind |-> "error", status |-> 0], [kind |-> "response", status |-> 200],
     [kind |-> "response", status |-> 500]}

\* The percentiles asked for, in percent.
Percentiles == {0, 20, 50, 80, 90, 99, 100}

Min(a, b) == IF a <= b THEN a ELSE b

----------------------------------------------------------------------------
(* Host: src/host.go *)

NewHost(t, maxStats) ==
    [startedAtUTC |-> t, downAt |-> NoTime, downtime |-> 0,
     stats |-> <<>>, maxStats |-> maxStats]

IsUp(h) == h.downAt = NoTime

\* TotalDowntime without the open down window
TotalDowntimeClosedOnly(h, t) == h.downtime

TotalDowntime(h, t) ==
    IF h.downAt # NoTime THEN h.downtime + (t - h.downAt) ELSE h.downtime

TotalTime(h, t) == t - h.startedAtUTC

\* SetUp that clears downAt without adding the down window
SetUpNoAccumulate(h, t) == [h EXCEPT !.downAt = NoTime]

\* SetUp that assigns the down window instead of adding it
SetUpAssign(h, t) ==
    [h EXCEPT !.downtime = IF h.downAt # NoTime THEN t - h.downAt ELSE @,
              !.downAt = NoTime]

\* SetUp that counts a tick of downtime on a host that is up
SetUpCountsUpTime(h, t) ==
    [h EXCEPT !.downtime = IF h.downAt # NoTime THEN @ + (t - h.downAt) ELSE @ + 1,
              !.downAt = NoTime]

\* SetUp that adds half the down window
SetUpHalfWindow(h, t) ==
    [h EXCEPT !.downtime = IF h.downAt # NoTime THEN @ + ((t - h.downAt) \div 2) ELSE @,
              !.downAt = NoTime]

SetUp(h, t) ==
    [h EXCEPT !.downtime = IF h.downAt # NoTime THEN @ + (t - h.downAt) ELSE @,
              !.downAt = NoTime]

\* SetDown without the nil check: every failure moves downAt
SetDownAlways(h, at) == [h EXCEPT !.downAt = at]

SetDown(h, at) ==
    IF h.downAt = NoTime THEN [h EXCEPT !.downAt = at] ELSE h

\* stats.Dequeue(): drops the oldest element; nothing to drop when empty
Dequeue(q) == IF q = <<>> THEN q ELSE Tail(q)

\* stats.Enqueue(v): appends at the tail
Enqueue(q, v) == Append(q, v)

\* AddTiming that records nothing
AddTimingNoRecord(h, elapsed) == h

\* AddTiming with > for >=: the window grows to maxStats + 1
AddTimingOffByOne(h, elapsed) ==
    LET q == IF Len(h.stats) > h.maxStats THEN Dequeue(h.stats) ELSE h.stats
    IN  [h EXCEPT !.stats = Enqueue(q, elapsed)]

AddTiming(h, elapsed) ==
    LET q == IF Len(h.stats) >= h.maxStats THEN Dequeue(h.stats) ELSE h.stats
    IN  [h EXCEPT !.stats = Enqueue(q, elapsed)]

\* Ping: TRUE iff Ping returns a non-nil error
PingErr(res) ==
    IF res.kind # "response" THEN TRUE
    ELSE res.status > StatusOK

\* doPing that records the elapsed time of successful probes only
doPingSkipFailed(h, res, elapsed, t) ==
    IF PingErr(res) THEN SetDown(h, t) ELSE AddTiming(SetUp(h, t), elapsed)

\* doPing: src/lib/checks.go
doPing(h, res, elapsed, t) ==
    AddTiming(IF PingErr(res) THEN SetDown(h, t) ELSE SetUp(h, t), elapsed)

----------------------------------------------------------------------------
(* Statistics: src/host.go and the helpers of src/unnamed/part_017 *)

\* sort.Sort(durations(values)): ascending, by insertion
RECURSIVE InsertSorted(_, _)
InsertSorted(sorted, v) ==
    IF sorted = <<>> THEN <<v>>
    ELSE IF v < Head(sorted) THEN <<v>> \o sorted
    ELSE <<Head(sorted)>> \o InsertSorted(Tail(sorted), v)

RECURSIVE SortDurations(_)
SortDurations(values) ==
    IF values = <<>> THEN <<>>
    ELSE InsertSorted(SortDurations(Tail(values)), Head(values))

RECURSIVE SumDurations(_)
SumDurations(durations) ==
    IF durations = <<>> THEN 0
    ELSE Head(durations) + SumDurations(Tail(durations))

AverageDuration(durations) == SumDurations(durations) \div Len(durations)

\* A float64 index is kept as the exact number of hundredths, index100:
\* (percentile / 100.0) * float64(n) is percentile * n hundredths.  For whole
\* percentiles and n < 25 the float64 product equals the exact one and has
\* the same integer test and the same rounding.
IsWhole(index100) == index100 % 100 = 0

\* Round that drops the fraction
RoundDown(index100) == index100 \div 100

\* Round(input, 0): the fraction >= 0.5 rounds up, a smaller one down
Round(index100) ==
    IF index100 % 100 >= 50 THEN (index100 \div 100) + 1 ELSE index100 \div 100

RoundToInt(index100) == Round(index100)

\* the outcome of indexing values[j] (j counted from 0): the element, or the
\* run-time panic "index out of range"
Panicked == [ok |-> FALSE, value |-> 0]

Returned(d) == [ok |-> TRUE, value |-> d]

\* Percentile without the midpoint at a whole index
PercentileNoMidpoint(h, percentile) ==
    LET values == SortDurations(h.stats)
        i      == RoundToInt(percentile * Len(values))
    IN  IF i < 1 THEN Returned(0)
        ELSE IF i > Len(values) THEN Panicked
        ELSE Returned(values[i])

\* Percentile without the checks of i < 1: values[i-1] is read at i = 0
PercentileNoZeroCheck(h, percentile) ==
    LET values == SortDurations(h.stats)
        index  == percentile * Len(values)
        i      == RoundToInt(index)
    IN  IF IsWhole(index)
        THEN IF i < 1 \/ i + 1 > Len(values) THEN Panicked
             ELSE Returned(AverageDuration(<<values[i], values[i + 1]>>))
        ELSE IF i < 1 \/ i > Len(values) THEN Panicked
             ELSE Returned(values[i])

\* Percentile: what the call returns, or that it panicked
Percentile(h, percentile) ==
    LET values == SortDurations(h.stats)
        index  == percentile * Len(values)
        i      == RoundToInt(index)
    IN  IF IsWhole(index)
        THEN IF i < 1 THEN Returned(0)
             ELSE IF i + 1 > Len(values) THEN Panicked
             ELSE Returned(AverageDuration(<<values[i], values[i + 1]>>))
        ELSE IF i < 1 THEN Returned(0)
             ELSE IF i > Len(values) THEN Panicked
             ELSE Returned(values[i])

\* Percentile that sorts the window itself instead of a copy
PercentileStatsSortedInPlace(h) == SortDurations(h.stats)

\* Percentile works in memory: mem is the arrays allocated, by address, and
\* a slice is the address of its array, its length and its capacity.  The
\* samples of the window lie in the array at WindowAddr, in the order
\* h.stats.Each visits them; a new array gets the next address.
WindowAddr == 1

\* var values []time.Duration: the nil slice, with no array
NilSlice == [array |-> 0, len |-> 0, cap |-> 0]

\* append(s, v): v is written behind the last element where the array of s
\* has room; otherwise a new array of twice the capacity (of one element
\* for the nil slice) is allocated, the elements of s are copied into it
\* and v is written behind them.  The memory and the slice after.
append(mem, s, v) ==
    IF s.len < s.cap
    THEN [mem   |-> [mem EXCEPT ![s.array][s.len + 1] = v],
          slice |-> [s EXCEPT !.len = @ + 1]]
    ELSE LET newcap == IF s.cap = 0 THEN 1 ELSE 2 * s.cap
             grown  == [i \in 1..newcap |->
                           IF i <= s.len THEN mem[s.array][i]
                           ELSE IF i = s.len + 1 THEN v ELSE 0]
         IN  [mem   |-> Append(mem, grown),
              slice |-> [array |-> Len(mem) + 1, len |-> s.len + 1, cap |-> newcap]]

\* h.stats.Each(func(v) { values = append(values, v.(time.Duration)) }),
\* from the i-th sample on: each sample is read from the window and
\* appended to values
RECURSIVE EachAppend(_, _, _)
EachAppend(mem, values, i) ==
    IF i > Len(mem[WindowAddr]) THEN [mem |-> mem, slice |-> values]
    ELSE LET r == append(mem, values, mem[WindowAddr][i])
         IN  EachAppend(r.mem, r.slice, i + 1)

\* durations.Less(i, j), indices counted from 1
Less(mem, dl, i, j) == mem[dl.array][i] < mem[dl.array][j]

\* durations.Swap(i, j): the two elements of the array of dl are exchanged
Swap(mem, dl, i, j) ==
    [mem EXCEPT ![dl.array] = [@ EXCEPT ![i] = mem[dl.array][j],
                                        ![j] = mem[dl.array][i]]]

\* sort.Sort, the inner loop of its insertion sort:
\* for j > a && data.Less(j, j-1) { data.Swap(j, j-1); j-- }
RECURSIVE InsertionSortInner(_, _, _)
InsertionSortInner(mem, dl, j) ==
    IF j > 1 /\ Less(mem, dl, j, j - 1)
    THEN InsertionSortInner(Swap(mem, dl, j, j - 1), dl, j - 1)
    ELSE mem

\* sort.Sort(durations(values)): for fewer than twelve elements the sort
\* package sorts by insertion, from the i-th element on
RECURSIVE InsertionSort(_, _, _)
InsertionSort(mem, dl, i) ==
    IF i > dl.len THEN mem
    ELSE InsertionSort(InsertionSortInner(mem, dl, i), dl, i + 1)

\* Percentile, its copy and its sort: the memory after, and the slice values
PercentileMemory(h) ==
    LET copied == EachAppend(<<h.stats>>, NilSlice, 1)
    IN  [mem    |-> InsertionSort(copied.mem, copied.slice, 2),
         values |-> copied.slice]

\* values[0:len(values)] as Percentile indexes it after the sort
PercentileValues(h) ==
    LET m == PercentileMemory(h)
    IN  [i \in 1..m.values.len |-> m.mem[m.values.array][i]]

\* The window after Percentile, whatever the percentile: what lies in its
\* array once the copy and the sort have written the memory
PercentileStats(h) == PercentileMemory(h).mem[WindowAddr]

\* Mean that sums every sample but the oldest
MeanSkipsOldest(h) ==
    IF h.stats = <<>> THEN Panicked
    ELSE Returned(SumDurations(Tail(h.stats)) \div Len(h.stats))

\* Mean: accum / time.Duration(h.stats.Len()), an integer division that
\* panics when the window is empty
Mean(h) ==
    LET accum == SumDurations(h.stats)
    IN  IF Len(h.stats) = 0 THEN Panicked
        ELSE Returned(accum \div Len(h.stats))

\* The samples WriteStatus collects with ReverseEachUntil: newest first,
\* until five are collected
RECURSIVE ReverseUntil(_, _)
ReverseUntil(q, n) ==
    IF q = <<>> \/ n = 0 THEN <<>>
    ELSE <<q[Len(q)]>> \o ReverseUntil(SubSeq(q, 1, Len(q) - 1), n - 1)

\* the first five samples of the window, oldest first
Last5OldestFirst(h) == SubSeq(h.stats, 1, Min(5, Len(h.stats)))

Last5(h) == ReverseUntil(h.stats, 5)

\* The uptime fraction of the status line, WriteStatus (src/host.go): the
\* quotient float64(totalTime-downTime) / float64(totalTime) of whole
\* milliseconds, kept as numerator and denominator; 1.0 is 1/1.
UptimePCT(h, t) ==
    IF TotalDowntime(h, t) > 0
    THEN LET totalTime == TotalTime(h, t) \div Millisecond
             downTime  == TotalDowntime(h, t) \div Millisecond
         IN  [num |-> totalTime - downTime, den |-> totalTime]
    ELSE [num |-> 1, den |-> 1]

\* The uptime fraction of Status (src/unnamed/part_015): the same quotient,
\* of the durations themselves.
StatusUptimePCT(h, t) ==
    IF TotalDowntime(h, t) > 0
    THEN LET totalTimeElapsed == t - h.startedAtUTC
         IN  [num |-> totalTimeElapsed - TotalDowntime(h, t), den |-> totalTimeElapsed]
    ELSE [num |-> 1, den |-> 1]

\* a float64 quotient that is a number of [0, 1] (0/0 is NaN, x/0 is +-Inf)
InUnitInterval(f) == f.den > 0 /\ 0 <= f.num /\ f.num <= f.den

\* a float64 quotient that is exactly 1.0
IsOne(f) == f.den # 0 /\ f.num = f.den

\* the fields of a status line that are not written
NoLine == [status |-> "", downFor |-> 0, last5 |-> <<>>, last |-> 0,
           avg |-> 0, p99 |-> 0, p90 |-> 0]

\* WriteStatus without the branch of the down host
HostWriteStatusNoDownBranch(h, t, writeFails) ==
    LET line ==
          IF Len(h.stats) = 0 THEN [NoLine EXCEPT !.status = "UNKNOWN"]
          ELSE [NoLine EXCEPT !.status = "UP",
                              !.last5 = Last5(h),
                              !.last = Last5(h)[1],
                              !.avg = Mean(h).value,
                              !.p99 = Percentile(h, 99).value,
                              !.p90 = Percentile(h, 90).value]
    IN  [err |-> writeFails, line |-> line]

\* Host.WriteStatus at time t, on a writer whose Write fails or not: the
\* line handed to the writer, with its durations before they are formatted,
\* and whether an error is returned
HostWriteStatus(h, t, writeFails) ==
    LET line ==
          IF ~IsUp(h)
          THEN [NoLine EXCEPT !.status = "DOWN", !.downFor = t - h.downAt]
          ELSE IF Len(h.stats) = 0 THEN [NoLine EXCEPT !.status = "UNKNOWN"]
          ELSE [NoLine EXCEPT !.status = "UP",
                              !.last5 = Last5(h),
                              !.last = Last5(h)[1],
                              !.avg = Mean(h).value,
                              !.p99 = Percentile(h, 99).value,
                              !.p90 = Percentile(h, 90).value]
    IN  [err |-> writeFails, line |-> line]

\* The host after WriteStatus: the method has a value receiver and reads
\* the window through Len, Each and ReverseEachUntil; nothing is assigned.
HostAfterWriteStatus(h) == h

\* Checks.WriteStatus that goes on to the next host after a failed write
RECURSIVE ChecksWriteStatusIgnoresErr(_, _, _, _)
ChecksWriteStatusIgnoresErr(hs, index, t, failAt) ==
    IF index > Len(hs) THEN (IF failAt = Len(hs) + 1 THEN failAt ELSE 0)
    ELSE ChecksWriteStatusIgnoresErr(hs, index + 1, t, failAt)

\* Checks.WriteStatus from host `index` on, on a writer whose failAt-th
\* write fails (none when failAt = 0; write Len(hs) + 1 is the closing
\* newline).  The error returned is named by the write it comes from, and
\* 0 is nil.
RECURSIVE ChecksWriteStatus(_, _, _, _)
ChecksWriteStatus(hs, index, t, failAt) ==
    IF index > Len(hs) THEN (IF failAt = Len(hs) + 1 THEN failAt ELSE 0)
    ELSE IF HostWriteStatus(hs[index].h, t, failAt = index).err THEN index
    ELSE ChecksWriteStatus(hs, index + 1, t, failAt)

\* the hosts after Checks.WriteStatus has written the lines of the first
\* `called` of them
HostsAfterWriteStatus(hs, called) ==
    [x \in 1..Len(hs) |->
        IF x <= called THEN [hs[x] EXCEPT !.h = HostAfterWriteStatus(@)] ELSE hs[x]]

----------------------------------------------------------------------------
(* Checks: src/lib/checks.go, the scheduler with the ticker and the abort  *)
(* channels.                                                               *)

\* NewChecksFromConfig: one Host per configured host, in the order given
NewChecksFromConfig(hostNames, maxStats, t) ==
    [x \in 1..Len(hostNames) |-> [url |-> hostNames[x], h |-> NewHost(t, maxStats)]]

\* wg.Add that counts one goroutine too few
WgAddShort(counter, n) == counter + n - 1

\* wg.Add(n)
WgAdd(counter, n) == counter + n

\* wg.Wait that returns while one goroutine is still running
WaitDoneEarly(counter) == counter <= 1

\* wg.Wait() returns when the counter is zero
WaitDone(counter) == counter = 0

\* a loop over the hosts that leaves out the last one
RoundIndexesShort(hs) == 1..(Len(hs) - 1)

\* a loop over the hosts that passes over the hosts that are down
RoundIndexesSkipDown(hs) == {x \in 1..Len(hs) : IsUp(hs[x].h)}

\* for index := range c.hosts
RoundIndexes(hs) == 1..Len(hs)

\* a probe goroutine that reads the loop variable after the loop has ended,
\* and so probes the last host
ProbeHostLast(hs, x, res, elapsed, t) ==
    [hs EXCEPT ![Len(hs)].h = doPing(@, res, elapsed, t)]

\* the probe goroutine of index x: host := c.hosts[x]; doPing(host)
ProbeHost(hs, x, res, elapsed, t) ==
    [hs EXCEPT ![x].h = doPing(@, res, elapsed, t)]

\* the state of a Checks that NewChecksFromConfig has just returned for a
\* configuration with the hosts named
ChecksInitWith(hostNames, maxStats) ==
    /\ chosts = NewChecksFromConfig(hostNames, maxStats, now)
    /\ startPc = "idle"
    /\ stopPc = "idle"
    /\ wg = 0
    /\ tickPending = FALSE
    /\ inflight = [x \in 1..Len(hostNames) |-> 0]
    /\ begin = [x \in 1..Len(hostNames) |-> 0]
    /\ round = 0
    /\ issued = [x \in 1..Len(hostNames) |-> 0]
    /\ outcome = [x \in 1..Len(hostNames) |-> NoOutcome]
    /\ roundAtStop = NoRound
    /\ stopInRound = FALSE

\* the same with config.MaxStats at its bound
ChecksInitFor(hostNames) == ChecksInitWith(hostNames, MaxStats)

\* the state of a Checks that NewChecksFromConfig has just returned
ChecksInit == ChecksInitFor(ConfigHosts)

\* Host.Status is not running: there is no copy of a Host
NoHost == [maxStats |-> 0, startedAtUTC |-> NoTime, downAt |-> NoTime,
           downtime |-> 0, stats |-> <<>>]

\* the scheduler with the flag and the lock, before Start(): c.running is
\* false, c.lock is free, no Status() and no doPing is under way
LockedChecksInit ==
    /\ running = FALSE
    /\ lock = 0
    /\ statusPc = 0
    /\ pending = [x \in 1..Len(ConfigHosts) |-> NoTime]
    /\ probePc = [x \in 1..Len(ConfigHosts) |-> "ping"]
    /\ statusHost = NoHost
    /\ statusAt = "none"

\* the standalone monitor before its main is entered
MonitorNotStarted ==
    /\ config = NoConfig
    /\ file = NoFile
    /\ config_last_write = NoTime
    /\ config_did_change = FALSE
    /\ should_watch_config = FALSE
    /\ host_data = [h \in MonitorHosts |-> NoHostData]
    /\ latch = 0
    /\ mainPc = "none"
    /\ pingPc = [h \in MonitorHosts |-> "none"]
    /\ notified = [h \in MonitorHosts |-> 0]
    /\ reloadFailed = FALSE
    /\ reloads = 0
    /\ main_x = 0

\* queue := &DurationQueue{}
QueueInit ==
    /\ dq = EmptyQueue
    /\ nodes = <<>>
    /\ pushed = <<>>
    /\ popped = <<>>

----------------------------------------------------------------------------
(* The life of one host: it is created, then probed round after round by   *)
(* the scheduler while the clock runs.                                     *)

HostInit ==
    /\ now \in 0..1
    /\ \E n \in 1..MaxStats : host = NewHost(now, n)
    /\ last = NoProbe
    /\ added = <<>>
    /\ outageStart = NoTime
    /\ outageSum = 0
    /\ outages = 0
    /\ ret = NoCall
    /\ ChecksInit
    /\ LockedChecksInit
    /\ QueueInit
    /\ MonitorNotStarted

\* time passes between two rounds
Tick ==
    /\ now < MaxTime
    /\ now' = now + 1
    /\ UNCHANGED <<host, last, added, outageStart, outageSum, outages, ret>>
    /\ UNCHANGED <<checksVars, statusVars, queueVars, monitorVars>>

\* One probe of the host, doPing(host): Ping() takes `elapsed` ticks and
\* comes back with `res`; the host is then updated at the time of return.
DoPing ==
    \E res \in PingResults, elapsed \in 1..MaxElapsed :
        LET t   == now + elapsed
            err == PingErr(res)
        IN  /\ t <= MaxTime
            /\ now' = t
            /\ host' = doPing(host, res, elapsed, t)
            /\ last' = [kind |-> res.kind, status |-> res.status,
                        elapsed |-> elapsed, err |-> err]
            /\ added' = Append(added, elapsed)
            /\ outageStart' = IF err THEN (IF last.err THEN outageStart ELSE t)
                              ELSE NoTime
            /\ outageSum' = IF ~err /\ last.err THEN outageSum + (t - outageStart)
                            ELSE outageSum
            /\ outages' = IF ~err /\ last.err THEN outages + 1 ELSE outages
            /\ UNCHANGED <<ret, checksVars, statusVars, queueVars, monitorVars>>

Next == Tick \/ DoPing

Spec == HostInit /\ [][Next]_vars

----------------------------------------------------------------------------
(* The statistics of one window: samples are recorded and percentiles are  *)
(* asked for between the recordings.                                       *)

StatsInit ==
    /\ now = 0
    /\ \E n \in 1..MaxWindow : host = NewHost(now, n)
    /\ last = NoProbe
    /\ added = <<>>
    /\ outageStart = NoTime
    /\ outageSum = 0
    /\ outages = 0
    /\ ret = NoCall
    /\ ChecksInit
    /\ LockedChecksInit
    /\ QueueInit
    /\ MonitorNotStarted

\* h.AddTiming(elapsed)
CallAddTiming ==
    \E elapsed \in 0..MaxSample :
        /\ Len(added) <= MaxWindow
        /\ host' = AddTiming(host, elapsed)
        /\ added' = Append(added, elapsed)
        /\ ret' = NoCall
        /\ UNCHANGED <<now, last, outageStart, outageSum, outages, checksVars, statusVars, queueVars, monitorVars>>

\* h.Percentile(p)
CallPercentile ==
    /\ host' = [host EXCEPT !.stats = PercentileStats(host)]
    /\ \E p \in Percentiles :
           LET r == Percentile(host, p)
           IN  ret' = [op |-> "Percentile", p |-> p, ok |-> r.ok, value |-> r.value]
    /\ UNCHANGED <<now, last, added, outageStart, outageSum, outages, checksVars, statusVars, queueVars, monitorVars>>

\* h.Mean()
CallMean ==
    LET r == Mean(host)
    IN  /\ ret' = [op |-> "Mean", p |-> 0, ok |-> r.ok, value |-> r.value]
        /\ UNCHANGED <<host, now, last, added, outageStart, outageSum, outages, checksVars, statusVars, queueVars, monitorVars>>

StatsNext == CallAddTiming \/ CallPercentile \/ CallMean

SpecStats == StatsInit /\ [][StatsNext]_vars

----------------------------------------------------------------------------
(* The status line of one host: the host is created with the capacity of   *)
(* the configuration, probed, and its status is written between probes.    *)

\* config.MaxStats: the capacities a configuration file can hold
RenderCapacities == {0, 1, 2, MaxRenderWindow}

RenderInit ==
    /\ now = 0
    /\ \E n \in RenderCapacities : host = NewHost(now, n)
    /\ last = NoProbe
    /\ added = <<>>
    /\ outageStart = NoTime
    /\ outageSum = 0
    /\ outages = 0
    /\ ret = NoCall
    /\ ChecksInit
    /\ LockedChecksInit
    /\ QueueInit
    /\ MonitorNotStarted

\* doPing(host): a response takes 1..MaxElapsed ticks, a timeout MaxElapsed
RenderProbe ==
    \E res \in ProbeResults, elapsed \in 1..MaxElapsed :
        /\ Len(added) <= MaxRenderWindow
        /\ res.kind = "timeout" => elapsed = MaxElapsed
        /\ now' = now + elapsed
        /\ host' = doPing(host, res, elapsed, now + elapsed)
        /\ last' = [kind |-> res.kind, status |-> res.status,
                    elapsed |-> elapsed, err |-> PingErr(res)]
        /\ added' = Append(added, elapsed)
        /\ ret' = NoCall
        /\ UNCHANGED <<outageStart, outageSum, outages, checksVars, statusVars, queueVars, monitorVars>>

\* h.WriteStatus(hostWidth, maxElapsed, writer), on a writer that fails or not
CallWriteStatus ==
    \E writeFails \in BOOLEAN :
        LET r == HostWriteStatus(host, now, writeFails)
        IN  /\ ret' = [op |-> "WriteStatus", p |-> 0, ok |-> ~r.err, value |-> 0,
                       line |-> r.line]
            /\ host' = HostAfterWriteStatus(host)
            /\ UNCHANGED <<now, last, added, outageStart, outageSum, outages,
                           checksVars, statusVars, queueVars, monitorVars>>

RenderNext == RenderProbe \/ CallWriteStatus

SpecRender == RenderInit /\ [][RenderNext]_vars

----------------------------------------------------------------------------
(* The scheduler: Start() runs its loop on one goroutine, every probe on a *)
(* goroutine of its own, the ticker fires on its period, and Stop() is     *)
(* called from another goroutine.  The clock counts the ticker's periods.  *)

SchedInit ==
    /\ now = 0
    /\ host = NewHost(now, MaxStats)
    /\ last = NoProbe
    /\ added = <<>>
    /\ outageStart = NoTime
    /\ outageSum = 0
    /\ outages = 0
    /\ ret = NoCall
    /\ ChecksInit
    /\ LockedChecksInit
    /\ QueueInit
    /\ MonitorNotStarted

\* Start() is called: the ticker is created and the loop reaches its select
StartCall ==
    /\ startPc = "idle"
    /\ startPc' = "select"
    /\ UNCHANGED <<hostVars, statusVars, queueVars, monitorVars, now, chosts, stopPc, wg, tickPending, inflight,
                   begin, round, issued, outcome, roundAtStop, stopInRound>>

\* One period of the ticker passes: a tick is put in ticker.C, or dropped
\* when ticker.C still holds one
TickerFire ==
    /\ startPc \notin {"idle", "exited"}
    /\ now < MaxTicks
    /\ now' = now + 1
    /\ tickPending' = TRUE
    /\ UNCHANGED <<hostVars, statusVars, queueVars, monitorVars, chosts, startPc, stopPc, wg, inflight, begin,
                   round, issued, outcome, roundAtStop, stopInRound>>

\* case <-ticker.C: wg.Add(len(c.hosts)) and one goroutine per host
SelectTick ==
    /\ startPc = "select"
    /\ tickPending
    /\ tickPending' = FALSE
    /\ wg' = WgAdd(wg, Len(chosts))
    /\ inflight' = [x \in DOMAIN inflight |->
                       IF x \in RoundIndexes(chosts) THEN inflight[x] + 1 ELSE inflight[x]]
    /\ begin' = [x \in DOMAIN begin |->
                       IF x \in RoundIndexes(chosts) THEN now ELSE begin[x]]
    /\ issued' = [x \in DOMAIN issued |->
                       IF x \in RoundIndexes(chosts) THEN issued[x] + 1 ELSE issued[x]]
    /\ round' = round + 1
    /\ startPc' = "wait"
    /\ UNCHANGED <<hostVars, statusVars, queueVars, monitorVars, now, chosts, stopPc, outcome, roundAtStop, stopInRound>>

\* A probe goroutine ends: Ping() comes back with res, doPing updates the
\* host, and the deferred wg.Done() runs
ProbeReturn ==
    \E x \in DOMAIN inflight, res \in ProbeResults :
        /\ inflight[x] > 0
        /\ chosts' = ProbeHost(chosts, x, res, now - begin[x], now)
        /\ inflight' = [inflight EXCEPT ![x] = @ - 1]
        /\ wg' = wg - 1
        /\ outcome' = [outcome EXCEPT ![x] = res]
        /\ UNCHANGED <<hostVars, statusVars, queueVars, monitorVars, now, startPc, stopPc, tickPending, begin,
                       round, issued, roundAtStop, stopInRound>>

\* wg.Wait() returns and the interval callback is entered
WaitReturn ==
    /\ startPc = "wait"
    /\ WaitDone(wg)
    /\ startPc' = "callback"
    /\ UNCHANGED <<hostVars, statusVars, queueVars, monitorVars, now, chosts, stopPc, wg, tickPending, inflight,
                   begin, round, issued, outcome, roundAtStop, stopInRound>>

\* The interval callback of main: render calls c.WriteStatus(tty), whose
\* failAt-th write fails or none does.  Here WriteStatus returns nil: the
\* callback returns and the loop is back at its select.
CallbackReturn ==
    \E failAt \in 0..(Len(chosts) + 1) :
        LET err == ChecksWriteStatus(chosts, 1, now, failAt)
        IN  /\ startPc = "callback"
            /\ err = 0
            /\ chosts' = HostsAfterWriteStatus(chosts, Len(chosts))
            /\ ret' = [op |-> "WriteStatus", p |-> failAt, ok |-> TRUE, value |-> err]
            /\ startPc' = "select"
            /\ UNCHANGED <<host, last, added, outageStart, outageSum, outages,
                           statusVars, queueVars, monitorVars, now, stopPc, wg, tickPending,
                           inflight, begin, round, issued, outcome, roundAtStop,
                           stopInRound>>

\* The interval callback of main when WriteStatus returns an error: the
\* callback calls log.Fatal(err), which ends the process.
CallbackFatal ==
    \E failAt \in 0..(Len(chosts) + 1) :
        LET err == ChecksWriteStatus(chosts, 1, now, failAt)
        IN  /\ startPc = "callback"
            /\ err # 0
            /\ chosts' = HostsAfterWriteStatus(chosts, Min(err, Len(chosts)))
            /\ ret' = [op |-> "WriteStatus", p |-> failAt, ok |-> FALSE, value |-> err]
            /\ startPc' = "exited"
            /\ UNCHANGED <<host, last, added, outageStart, outageSum, outages,
                           statusVars, queueVars, monitorVars, now, stopPc, wg, tickPending,
                           inflight, begin, round, issued, outcome, roundAtStop,
                           stopInRound>>

\* Stop() that returns at once, without the send and the receive
StopCallNoWait ==
    /\ stopPc = "idle"
    /\ startPc # "exited"
    /\ stopPc' = "returned"
    /\ roundAtStop' = IF startPc \in {"idle", "returned"} THEN NoRound ELSE round
    /\ stopInRound' = (startPc = "wait" /\ wg = Len(chosts))
    /\ UNCHANGED <<hostVars, statusVars, queueVars, monitorVars, now, chosts, startPc, wg, tickPending, inflight,
                   begin, round, issued, outcome>>

\* Stop() is called and blocks in c.abort <- true
StopCall ==
    /\ stopPc = "idle"
    /\ startPc # "exited"
    /\ stopPc' = "sending"
    /\ roundAtStop' = IF startPc \in {"idle", "returned"} THEN NoRound ELSE round
    /\ stopInRound' = (startPc = "wait" /\ wg = Len(chosts))
    /\ UNCHANGED <<hostVars, statusVars, queueVars, monitorVars, now, chosts, startPc, wg, tickPending, inflight,
                   begin, round, issued, outcome>>

\* case <-c.abort that returns without the send on c.aborted
SelectAbortNoReply ==
    /\ startPc = "select"
    /\ stopPc = "sending"
    /\ startPc' = "returned"
    /\ stopPc' = "receiving"
    /\ UNCHANGED <<hostVars, statusVars, queueVars, monitorVars, now, chosts, wg, tickPending, inflight, begin,
                   round, issued, outcome, roundAtStop, stopInRound>>

\* case <-c.abort that acknowledges and goes round the loop again
SelectAbortKeepsLooping ==
    /\ startPc = "select"
    /\ stopPc = "sending"
    /\ startPc' = "select"
    /\ stopPc' = "returned"
    /\ UNCHANGED <<hostVars, statusVars, queueVars, monitorVars, now, chosts, wg, tickPending, inflight, begin,
                   round, issued, outcome, roundAtStop, stopInRound>>

\* case <-c.abort: Start receives what Stop sends and goes on to
\* c.aborted <- true; Stop goes on to <-c.aborted
SelectAbort ==
    /\ startPc = "select"
    /\ stopPc = "sending"
    /\ startPc' = "aborted"
    /\ stopPc' = "receiving"
    /\ UNCHANGED <<hostVars, statusVars, queueVars, monitorVars, now, chosts, wg, tickPending, inflight, begin,
                   round, issued, outcome, roundAtStop, stopInRound>>

\* Stop receives from c.aborted: Start returns and Stop returns
AbortedReceive ==
    /\ startPc = "aborted"
    /\ stopPc = "receiving"
    /\ startPc' = "returned"
    /\ stopPc' = "returned"
    /\ UNCHANGED <<hostVars, statusVars, queueVars, monitorVars, now, chosts, wg, tickPending, inflight, begin,
                   round, issued, outcome, roundAtStop, stopInRound>>

SchedNext ==
    \/ StartCall
    \/ TickerFire
    \/ SelectTick
    \/ ProbeReturn
    \/ WaitReturn
    \/ CallbackReturn
    \/ CallbackFatal
    \/ StopCall
    \/ SelectAbort
    \/ AbortedReceive

SpecChecks == SchedInit /\ [][SchedNext]_vars

\* Stop() is called by the interval callback, on Start's own goroutine,
\* and blocks in c.abort <- true
CallbackStop ==
    /\ startPc = "callback"
    /\ startPc' = "stopping"
    /\ UNCHANGED <<hostVars, statusVars, queueVars, monitorVars, now, chosts, stopPc, wg, tickPending,
                   inflight, begin, round, issued, outcome, roundAtStop, stopInRound>>

\* Stop() is called again after a Stop() has returned, and blocks in
\* c.abort <- true
StopAgain ==
    /\ stopPc = "returned"
    /\ stopPc' = "sending"
    /\ UNCHANGED <<hostVars, statusVars, queueVars, monitorVars, now, chosts, startPc, wg, tickPending,
                   inflight, begin, round, issued, outcome, roundAtStop, stopInRound>>

StopNext == SchedNext \/ CallbackStop \/ StopAgain

\* the scheduler with every way of calling Stop()
SpecStop == SchedInit /\ [][StopNext]_vars

\* a configuration of two hosts
TwoHosts == SubSeq(ConfigHosts, 1, 2)

FairInit ==
    /\ now = 0
    /\ host = NewHost(now, MaxStats)
    /\ last = NoProbe
    /\ added = <<>>
    /\ outageStart = NoTime
    /\ outageSum = 0
    /\ outages = 0
    /\ ret = NoCall
    /\ ChecksInitFor(TwoHosts)
    /\ LockedChecksInit
    /\ QueueInit
    /\ MonitorNotStarted

\* The scheduler of two hosts under the fairness its run time gives: a probe that is in
\* flight returns (each carries its timeout), wg.Wait() returns once the
\* counter is zero, the callback comes to its end, a receive completes once
\* its sender waits, and select, which picks uniformly at random among its
\* ready cases, does not pass over a case for ever that is ready time and
\* again.
SpecChecksFair ==
    /\ FairInit
    /\ [][SchedNext]_vars
    /\ WF_vars(ProbeReturn)
    /\ WF_vars(WaitReturn)
    /\ WF_vars(CallbackReturn)
    /\ SF_vars(SelectAbort)
    /\ WF_vars(AbortedReceive)

----------------------------------------------------------------------------
(* The scheduler with the running flag and the lock (the first Checks of   *)
(* src/lib/checks.go): Start() loops while c.running, sleeping for the     *)
(* poll interval between rounds, and Status() may be called at any time    *)
(* from a goroutine of its own.  The clock counts the poll intervals.      *)

\* The receiver of Host.Status is a value: the call copies the fields of
\* the Host, one field at a time.  This is the copy of the field f, and with
\* it of the fields nothing writes after NewHost.  The field stats is a
\* pointer, so the window stays the shared ring buffer and is not part of
\* the copy.
CopyHost(copy, h, f) ==
    [copy EXCEPT !.maxStats = h.maxStats, !.startedAtUTC = h.startedAtUTC,
                 ![f] = h[f]]

\* the fields of a Host that doPing writes and the copy reads
CopiedFields == {"downAt", "downtime"}

\* the word of the line Host.Status returns: IsUp() on the copy of the
\* Host, then h.stats.Len() on the shared window as it is by then
HostStatus(copy, stats) ==
    IF ~IsUp(copy) THEN "DOWN"
    ELSE IF Len(stats) = 0 THEN "UNKNOWN"
    ELSE "UP"

\* config.MaxStats of the configurations the scheduler is started with
StatusCapacities == {1, MaxStats}

StatusInit ==
    /\ now = 0
    /\ host = NewHost(now, MaxStats)
    /\ last = NoProbe
    /\ added = <<>>
    /\ outageStart = NoTime
    /\ outageSum = 0
    /\ outages = 0
    /\ ret = NoCall
    /\ \E n \in StatusCapacities : ChecksInitWith(TwoHosts, n)
    /\ LockedChecksInit
    /\ QueueInit
    /\ MonitorNotStarted

\* Start() that leaves c.running as it finds it
FlagStartKeepsFlag ==
    /\ statusAt # "panic"
    /\ startPc = "idle"
    /\ running' = running
    /\ startPc' = "loop"
    /\ UNCHANGED <<hostVars, queueVars, monitorVars, now, chosts, stopPc, wg, tickPending,
                   inflight, begin, round, issued, outcome, roundAtStop,
                   stopInRound, lock, statusPc, pending, probePc, statusHost,
                   statusAt>>

\* Start() is called: c.running = true
FlagStart ==
    /\ statusAt # "panic"
    /\ startPc = "idle"
    /\ running' = TRUE
    /\ startPc' = "loop"
    /\ UNCHANGED <<hostVars, queueVars, monitorVars, now, chosts, stopPc, wg, tickPending,
                   inflight, begin, round, issued, outcome, roundAtStop,
                   stopInRound, lock, statusPc, pending, probePc, statusHost,
                   statusAt>>

\* for c.running: wg.Add(len(c.hosts)) and one goroutine per host
FlagRound ==
    /\ statusAt # "panic"
    /\ startPc = "loop"
    /\ running
    /\ wg' = WgAdd(wg, Len(chosts))
    /\ inflight' = [x \in DOMAIN inflight |->
                       IF x \in RoundIndexes(chosts) THEN inflight[x] + 1 ELSE inflight[x]]
    /\ begin' = [x \in DOMAIN begin |->
                       IF x \in RoundIndexes(chosts) THEN now ELSE begin[x]]
    /\ issued' = [x \in DOMAIN issued |->
                       IF x \in RoundIndexes(chosts) THEN issued[x] + 1 ELSE issued[x]]
    /\ round' = round + 1
    /\ startPc' = "wait"
    /\ UNCHANGED <<hostVars, queueVars, monitorVars, statusVars, now, chosts, stopPc,
                   tickPending, outcome, roundAtStop, stopInRound>>

\* for c.running, with c.running false: Start() returns
FlagReturn ==
    /\ statusAt # "panic"
    /\ startPc = "loop"
    /\ ~running
    /\ startPc' = "returned"
    /\ UNCHANGED <<hostVars, queueVars, monitorVars, statusVars, now, chosts, stopPc, wg,
                   tickPending, inflight, begin, round, issued, outcome,
                   roundAtStop, stopInRound>>

\* doPing: Ping() comes back with res.  On an error h.SetDown(time.Now())
\* runs, which stores downAt at most; otherwise h.SetUp() begins and adds
\* the down window to downtime, with downAt still to be cleared.  The
\* elapsed time is still to be recorded.
FlagProbeSet ==
    \E x \in DOMAIN inflight, res \in ProbeResults :
        /\ statusAt # "panic"
        /\ inflight[x] > 0
        /\ pending[x] = NoTime
        /\ chosts' = [chosts EXCEPT ![x].h =
                         IF PingErr(res) THEN SetDown(@, now)
                         ELSE [@ EXCEPT !.downtime = SetUp(chosts[x].h, now).downtime]]
        /\ pending' = [pending EXCEPT ![x] = now - begin[x]]
        /\ probePc' = [probePc EXCEPT ![x] = IF PingErr(res) THEN "addTiming" ELSE "setUp"]
        /\ outcome' = [outcome EXCEPT ![x] = res]
        /\ UNCHANGED <<hostVars, queueVars, monitorVars, now, startPc, stopPc, wg, tickPending,
                       inflight, begin, round, issued, roundAtStop, stopInRound,
                       running, lock, statusPc, statusHost, statusAt>>

\* doPing, h.SetUp() goes on: h.downAt = nil
FlagProbeSetUp ==
    \E x \in DOMAIN inflight :
        /\ statusAt # "panic"
        /\ probePc[x] = "setUp"
        /\ chosts' = [chosts EXCEPT ![x].h.downAt = SetUp(chosts[x].h, now).downAt]
        /\ probePc' = [probePc EXCEPT ![x] = "addTiming"]
        /\ UNCHANGED <<hostVars, queueVars, monitorVars, now, startPc, stopPc, wg,
                       tickPending, inflight, begin, round, issued, outcome,
                       roundAtStop, stopInRound, running, lock, statusPc, pending,
                       statusHost, statusAt>>

\* doPing, h.AddTiming(elapsed), first half: the test of the length and,
\* on a full window, h.stats.Dequeue()
FlagProbeDequeue ==
    \E x \in DOMAIN inflight :
        /\ statusAt # "panic"
        /\ probePc[x] = "addTiming"
        /\ chosts' = [chosts EXCEPT ![x].h.stats =
                         IF Len(@) >= chosts[x].h.maxStats THEN Dequeue(@) ELSE @]
        /\ probePc' = [probePc EXCEPT ![x] = "enqueue"]
        /\ UNCHANGED <<hostVars, queueVars, monitorVars, now, startPc, stopPc, wg,
                       tickPending, inflight, begin, round, issued, outcome,
                       roundAtStop, stopInRound, running, lock, statusPc, pending,
                       statusHost, statusAt>>

\* doPing, h.AddTiming(elapsed), second half: h.stats.Enqueue(elapsed);
\* then the deferred wg.Done()
FlagProbeRecord ==
    \E x \in DOMAIN inflight :
        /\ statusAt # "panic"
        /\ probePc[x] = "enqueue"
        /\ chosts' = [chosts EXCEPT ![x].h.stats = Enqueue(@, pending[x])]
        /\ pending' = [pending EXCEPT ![x] = NoTime]
        /\ probePc' = [probePc EXCEPT ![x] = "ping"]
        /\ inflight' = [inflight EXCEPT ![x] = @ - 1]
        /\ wg' = wg - 1
        /\ UNCHANGED <<hostVars, queueVars, monitorVars, now, startPc, stopPc, tickPending,
                       begin, round, issued, outcome, roundAtStop, stopInRound,
                       running, lock, statusPc, statusHost, statusAt>>

\* wg.Wait() returns, the interval action runs, and Start() goes to sleep
FlagWait ==
    /\ statusAt # "panic"
    /\ startPc = "wait"
    /\ WaitDone(wg)
    /\ startPc' = "sleep"
    /\ UNCHANGED <<hostVars, queueVars, monitorVars, statusVars, now, chosts, stopPc, wg,
                   tickPending, inflight, begin, round, issued, outcome,
                   roundAtStop, stopInRound>>

\* time.Sleep(c.config.PollInterval) returns
FlagSleep ==
    /\ statusAt # "panic"
    /\ startPc = "sleep"
    /\ now < MaxTicks
    /\ now' = now + 1
    /\ startPc' = "loop"
    /\ UNCHANGED <<hostVars, queueVars, monitorVars, statusVars, chosts, stopPc, wg,
                   tickPending, inflight, begin, round, issued, outcome,
                   roundAtStop, stopInRound>>

\* Stop(): c.running = false.  A Stop() that runs before Start() has set
\* the flag is remembered as "early", and Stop() can be called again.
FlagStop ==
    /\ statusAt # "panic"
    /\ stopPc \in {"idle", "early"}
    /\ running' = FALSE
    /\ stopPc' = IF startPc = "idle" THEN "early" ELSE "returned"
    /\ roundAtStop' = IF startPc = "idle" THEN roundAtStop ELSE round
    /\ stopInRound' = (startPc = "wait" /\ wg = Len(chosts))
    /\ UNCHANGED <<hostVars, queueVars, monitorVars, now, chosts, startPc, wg, tickPending,
                   inflight, begin, round, issued, outcome, lock, statusPc,
                   pending, probePc, statusHost, statusAt>>

\* Status() is called: c.lock.RLock(), which no writer ever holds back, and
\* the loop over the hosts is at the first host
StatusCall ==
    /\ statusAt # "panic"
    /\ statusPc = 0
    /\ lock' = lock + 1
    /\ statusPc' = 1
    /\ UNCHANGED <<hostVars, queueVars, monitorVars, now, checksVars, running, pending,
                   probePc, statusHost, statusAt>>

\* c.hosts[index].Status(c.longestHost) is entered: the Host is copied
\* into the receiver, downAt and downtime in either order and each as it is
\* at its turn of the copy, which no lock makes one with the other
StatusCopyHost ==
    \E f \in CopiedFields :
        /\ statusPc \in 1..Len(chosts)
        /\ statusAt \in {"none"} \cup CopiedFields
        /\ f # statusAt
        /\ statusHost' = CopyHost(statusHost, chosts[statusPc].h, f)
        /\ statusAt' = IF statusAt = "none" THEN f ELSE "copied"
        /\ UNCHANGED <<hostVars, queueVars, monitorVars, now, checksVars, running, lock,
                       statusPc, pending, probePc>>

\* Host.Status goes on to its first two returns: IsUp() of the copy, and
\* h.stats.Len() of the shared window.  A host that is down or has no
\* sample has its line; for any other the statistics are still to be read.
StatusReadHost ==
    LET word == HostStatus(statusHost, chosts[statusPc].h.stats)
    IN  /\ statusPc \in 1..Len(chosts)
        /\ statusAt = "copied"
        /\ IF word = "UP"
           THEN /\ statusAt' = "mean"
                /\ UNCHANGED <<ret, statusPc, statusHost>>
           ELSE /\ ret' = [op |-> "Status", p |-> statusPc, ok |-> TRUE, value |-> 0,
                           line |-> word, panic |-> ""]
                /\ statusPc' = statusPc + 1
                /\ statusHost' = NoHost
                /\ statusAt' = "none"
        /\ UNCHANGED <<host, last, added, outageStart, outageSum, outages,
                       queueVars, monitorVars, now, checksVars, running, lock, pending,
                       probePc>>

\* Host.Status, avg := h.Mean(): the sum of the shared window is divided by
\* its Len() as it is by then, and the division panics when a Dequeue has
\* emptied the window since the test of the length.  A panic ends the
\* program.
StatusMean ==
    /\ statusPc \in 1..Len(chosts)
    /\ statusAt = "mean"
    /\ IF Len(chosts[statusPc].h.stats) = 0
       THEN /\ ret' = [op |-> "Status", p |-> statusPc, ok |-> FALSE, value |-> 0,
                       line |-> "", panic |-> "integer divide by zero"]
            /\ statusAt' = "panic"
       ELSE /\ statusAt' = "last"
            /\ ret' = ret
    /\ UNCHANGED <<host, last, added, outageStart, outageSum, outages,
                   queueVars, monitorVars, now, checksVars, running, lock, statusPc,
                   pending, probePc, statusHost>>

\* Host.Status, the percentiles, h.stats.ReverseEachUntil and last5[0]: the
\* last samples are read from the shared window as it is by then, and
\* last5[0] panics when the window is empty.  Otherwise the line of a
\* host that is up is returned.
StatusLast ==
    /\ statusPc \in 1..Len(chosts)
    /\ statusAt = "last"
    /\ IF Len(chosts[statusPc].h.stats) = 0
       THEN /\ ret' = [op |-> "Status", p |-> statusPc, ok |-> FALSE, value |-> 0,
                       line |-> "", panic |-> "index out of range"]
            /\ statusAt' = "panic"
            /\ UNCHANGED <<statusPc, statusHost>>
       ELSE /\ ret' = [op |-> "Status", p |-> statusPc, ok |-> TRUE, value |-> 0,
                       line |-> "UP", panic |-> ""]
            /\ statusPc' = statusPc + 1
            /\ statusHost' = NoHost
            /\ statusAt' = "none"
    /\ UNCHANGED <<host, last, added, outageStart, outageSum, outages,
                   queueVars, monitorVars, now, checksVars, running, lock, pending,
                   probePc>>

\* Status() returns: the deferred c.lock.RUnlock()
StatusReturn ==
    /\ statusAt # "panic"
    /\ statusPc = Len(chosts) + 1
    /\ lock' = lock - 1
    /\ statusPc' = 0
    /\ UNCHANGED <<hostVars, queueVars, monitorVars, now, checksVars, running, pending,
                   probePc, statusHost, statusAt>>

StatusNext ==
    \/ FlagStart
    \/ FlagRound
    \/ FlagReturn
    \/ FlagProbeSet
    \/ FlagProbeSetUp
    \/ FlagProbeDequeue
    \/ FlagProbeRecord
    \/ FlagWait
    \/ FlagSleep
    \/ FlagStop
    \/ StatusCall
    \/ StatusCopyHost
    \/ StatusReadHost
    \/ StatusMean
    \/ StatusLast
    \/ StatusReturn

SpecStatus == StatusInit /\ [][StatusNext]_vars

----------------------------------------------------------------------------
(* DurationQueue: src/lib/duration_queue.go.  A *durationNode is the index *)
(* of the node in `nodes`, in the order of allocation, and Nil is nil.  A  *)
(* *time.Duration that is returned is the pair of whether it is non-nil    *)
(* and the value it points to.                                             *)

NilDuration == [ok |-> FALSE, value |-> 0]

\* Push(value): the queue and the heap after the call
Push(q, heap, value) ==
    LET new      == Len(heap) + 1
        new_node == [Value |-> value, Previous |-> Nil, Next |-> q.Tail]
        linked   == IF q.Tail # Nil THEN [heap EXCEPT ![q.Tail].Previous = new]
                    ELSE heap
    IN  [dq    |-> [Head   |-> IF q.Head = Nil THEN new ELSE q.Head,
                    Tail   |-> new,
                    Length |-> q.Length + 1],
         nodes |-> Append(linked, new_node)]

\* Pop that takes the value at the tail
PopTail(q, heap) ==
    IF q.Tail = Nil THEN [dq |-> q, nodes |-> heap, ptr |-> NilDuration]
    ELSE LET tail == heap[q.Tail].Next
         IN  [dq    |-> [Head   |-> IF tail = Nil THEN Nil ELSE q.Head,
                         Tail   |-> tail,
                         Length |-> q.Length - 1],
              nodes |-> heap,
              ptr   |-> [ok |-> TRUE, value |-> heap[q.Tail].Value]]

\* Pop(): the queue and the heap after the call, and the pointer returned
Pop(q, heap) ==
    IF q.Head = Nil THEN [dq |-> q, nodes |-> heap, ptr |-> NilDuration]
    ELSE LET head == heap[q.Head].Previous
         IN  [dq    |-> [Head   |-> head,
                         Tail   |-> IF head = Nil THEN Nil ELSE q.Tail,
                         Length |-> q.Length - 1],
              nodes |-> heap,
              ptr   |-> [ok |-> TRUE, value |-> heap[q.Head].Value]]

\* Peek(): the pointer returned
Peek(q, heap) ==
    IF q.Head = Nil THEN NilDuration
    ELSE [ok |-> TRUE, value |-> heap[q.Head].Value]

\* PeekBack(): the pointer returned
PeekBack(q, heap) ==
    IF q.Tail = Nil THEN NilDuration
    ELSE [ok |-> TRUE, value |-> heap[q.Tail].Value]

\* the values from node_ptr on, following Previous
RECURSIVE ToArrayFrom(_, _)
ToArrayFrom(node_ptr, heap) ==
    IF node_ptr = Nil THEN <<>>
    ELSE <<heap[node_ptr].Value>> \o ToArrayFrom(heap[node_ptr].Previous, heap)

\* ToArray()
ToArray(q, heap) ==
    IF q.Head = Nil THEN <<>> ELSE ToArrayFrom(q.Head, heap)

DurationQueueInit ==
    /\ now = 0
    /\ host = NewHost(now, MaxStats)
    /\ last = NoProbe
    /\ added = <<>>
    /\ outageStart = NoTime
    /\ outageSum = 0
    /\ outages = 0
    /\ ret = NoCall
    /\ ChecksInit
    /\ LockedChecksInit
    /\ QueueInit
    /\ MonitorNotStarted

\* queue.Push(value)
CallPush ==
    \E value \in 0..MaxSample :
        LET r == Push(dq, nodes, value)
        IN  /\ Len(pushed) < MaxWindow
            /\ dq' = r.dq
            /\ nodes' = r.nodes
            /\ pushed' = Append(pushed, value)
            /\ ret' = [op |-> "Push", p |-> 0, ok |-> TRUE, value |-> value]
            /\ UNCHANGED <<host, last, added, outageStart, outageSum, outages,
                           now, checksVars, statusVars, popped, monitorVars>>

\* queue.Pop()
CallPop ==
    LET r == Pop(dq, nodes)
    IN  /\ dq' = r.dq
        /\ nodes' = r.nodes
        /\ popped' = IF r.ptr.ok THEN Append(popped, r.ptr.value) ELSE popped
        /\ ret' = [op |-> "Pop", p |-> 0, ok |-> r.ptr.ok, value |-> r.ptr.value]
        /\ UNCHANGED <<host, last, added, outageStart, outageSum, outages,
                       now, checksVars, statusVars, pushed, monitorVars>>

\* queue.Peek()
CallPeek ==
    LET r == Peek(dq, nodes)
    IN  /\ ret' = [op |-> "Peek", p |-> 0, ok |-> r.ok, value |-> r.value]
        /\ UNCHANGED <<host, last, added, outageStart, outageSum, outages,
                       now, checksVars, statusVars, queueVars, monitorVars>>

\* queue.PeekBack()
CallPeekBack ==
    LET r == PeekBack(dq, nodes)
    IN  /\ ret' = [op |-> "PeekBack", p |-> 0, ok |-> r.ok, value |-> r.value]
        /\ UNCHANGED <<host, last, added, outageStart, outageSum, outages,
                       now, checksVars, statusVars, queueVars, monitorVars>>

QueueNext == CallPush \/ CallPop \/ CallPeek \/ CallPeekBack

SpecQueue == DurationQueueInit /\ [][QueueNext]_vars

----------------------------------------------------------------------------
(* Durations as text: FormatDuration, ParseDuration and RoundDuration.     *)
(* A time.Duration is a count of nanoseconds in 64 bits; it is kept here   *)
(* as whole seconds and the nanoseconds below a second, and a string as    *)
(* the sequence of its runes.                                              *)

\* the largest count of hours of the durations that are drawn
MaxHours == 2

NanosPerSecond == 1000 * 1000 * 1000

\* time.Duration(n), n nanoseconds
Nanoseconds(n) == [sec |-> n \div NanosPerSecond, nsec |-> n % NanosPerSecond]

TimeMicrosecond == [sec |-> 0, nsec |-> 1000]
TimeMillisecond == [sec |-> 0, nsec |-> 1000 * 1000]
TimeSecond == [sec |-> 1, nsec |-> 0]
TimeMinute == [sec |-> 60, nsec |-> 0]
TimeHour == [sec |-> 60 * 60, nsec |-> 0]

\* the units a duration is formatted in and rounded to
TimeUnits == {TimeMicrosecond, TimeMillisecond, TimeSecond, TimeMinute, TimeHour}

\* a + b
DurationAdd(a, b) ==
    [sec  |-> a.sec + b.sec + ((a.nsec + b.nsec) \div NanosPerSecond),
     nsec |-> (a.nsec + b.nsec) % NanosPerSecond]

\* a - b, for a >= b
DurationSub(a, b) ==
    IF a.nsec >= b.nsec
    THEN [sec |-> a.sec - b.sec, nsec |-> a.nsec - b.nsec]
    ELSE [sec |-> a.sec - b.sec - 1, nsec |-> (a.nsec + NanosPerSecond) - b.nsec]

\* a >= b
DurationGeq(a, b) == a.sec > b.sec \/ (a.sec = b.sec /\ a.nsec >= b.nsec)

\* a / unit, the integer quotient, for one of the units of the time package
DurationDiv(a, unit) ==
    IF unit.sec > 0 THEN a.sec \div unit.sec
    ELSE a.sec * (NanosPerSecond \div unit.nsec) + (a.nsec \div unit.nsec)

\* n * unit
DurationMul(n, unit) ==
    IF unit.sec > 0 THEN [sec |-> n * unit.sec, nsec |-> 0]
    ELSE [sec  |-> n \div (NanosPerSecond \div unit.nsec),
          nsec |-> (n % (NanosPerSecond \div unit.nsec)) * unit.nsec]

\* ExplodeDuration(duration): the count of each unit
ExplodeDuration(duration) ==
    LET hours == DurationDiv(duration, TimeHour)
        hoursRemainder == DurationSub(duration, DurationMul(hours, TimeHour))
        minutes == DurationDiv(hoursRemainder, TimeMinute)
        minuteRemainder == DurationSub(hoursRemainder, DurationMul(minutes, TimeMinute))
        seconds == DurationDiv(minuteRemainder, TimeSecond)
        secondsRemainder == DurationSub(minuteRemainder, DurationMul(seconds, TimeSecond))
        milliseconds == DurationDiv(secondsRemainder, TimeMillisecond)
        millisecondsRemainder ==
            DurationSub(secondsRemainder, DurationMul(milliseconds, TimeMillisecond))
        microseconds == DurationDiv(millisecondsRemainder, TimeMicrosecond)
    IN  [hours |-> hours, minutes |-> minutes, seconds |-> seconds,
         milliseconds |-> milliseconds, microseconds |-> microseconds]

DigitRunes == <<"0", "1", "2", "3", "4", "5", "6", "7", "8", "9">>

\* fmt.Sprintf("%d", n) for n >= 0
RECURSIVE SprintfD(_)
SprintfD(n) ==
    IF n < 10 THEN <<DigitRunes[n + 1]>>
    ELSE SprintfD(n \div 10) \o <<DigitRunes[(n % 10) + 1]>>

\* the unit labels FormatDuration writes
LabelHours == <<"h">>
LabelMinutes == <<"m">>
LabelSeconds == <<"s">>
LabelMilliseconds == <<"m", "s">>
LabelMicroseconds == <<"µ", "s">>

\* FormatDuration(duration)
FormatDuration(duration) ==
    LET e == ExplodeDuration(duration)
    IN  (IF e.hours > 0 THEN SprintfD(e.hours) \o LabelHours ELSE <<>>)
        \o (IF e.minutes > 0 THEN SprintfD(e.minutes) \o LabelMinutes ELSE <<>>)
        \o (IF e.seconds > 0 THEN SprintfD(e.seconds) \o LabelSeconds ELSE <<>>)
        \o (IF e.milliseconds > 0 THEN SprintfD(e.milliseconds) \o LabelMilliseconds ELSE <<>>)
        \o (IF e.microseconds > 0 THEN SprintfD(e.microseconds) \o LabelMicroseconds ELSE <<>>)

\* RoundDuration that compares the count of each unit, not its duration
RoundDurationByCount(duration, roundTo) ==
    LET e == ExplodeDuration(duration)
        part(count, unit) ==
            IF DurationGeq(Nanoseconds(count), roundTo)
            THEN DurationMul(count, unit) ELSE Nanoseconds(0)
    IN  DurationAdd(part(e.hours, TimeHour),
        DurationAdd(part(e.minutes, TimeMinute),
        DurationAdd(part(e.seconds, TimeSecond),
        DurationAdd(part(e.milliseconds, TimeMillisecond),
                    part(e.microseconds, TimeMicrosecond)))))

\* RoundDuration(duration, roundTo)
RoundDuration(duration, roundTo) ==
    LET e == ExplodeDuration(duration)
        part(count, unit) ==
            IF DurationGeq(DurationMul(count, unit), roundTo)
            THEN DurationMul(count, unit) ELSE Nanoseconds(0)
    IN  DurationAdd(part(e.hours, TimeHour),
        DurationAdd(part(e.minutes, TimeMinute),
        DurationAdd(part(e.seconds, TimeSecond),
        DurationAdd(part(e.milliseconds, TimeMillisecond),
                    part(e.microseconds, TimeMicrosecond)))))

\* IsNumber(c)
IsNumber(c) == \E i \in 1..Len(DigitRunes) : DigitRunes[i] = c

\* the value of a digit rune
DigitValue(c) == (CHOOSE i \in 1..Len(DigitRunes) : DigitRunes[i] = c) - 1

\* strconv.ParseInt(input, 10, 64) of a string of digits
RECURSIVE DigitsValue(_)
DigitsValue(input) ==
    IF Len(input) = 0 THEN 0
    ELSE DigitsValue(SubSeq(input, 1, Len(input) - 1)) * 10 + DigitValue(input[Len(input)])

\* strconv.ParseInt(input, 10, 64) returns no error: an optional sign and
\* one digit or more
ParsesAsInt(input) ==
    LET digits == IF Len(input) > 0 /\ input[1] \in {"+", "-"} THEN Tail(input) ELSE input
    IN  Len(digits) > 0 /\ \A i \in 1..Len(digits) : IsNumber(digits[i])

\* ParseInt64(input): zero when strconv.ParseInt returns an error
ParseInt64(input) ==
    IF ~ParsesAsInt(input) THEN 0
    ELSE IF input[1] = "-" THEN 0 - DigitsValue(Tail(input))
    ELSE IF input[1] = "+" THEN DigitsValue(Tail(input))
    ELSE DigitsValue(input)

\* consumeValues() that tells the unit by the first rune of the label
ConsumeValuesByFirstRune(st) ==
    IF Len(st.labelValue) = 0 THEN st
    ELSE IF st.labelValue[1] = "h" THEN [st EXCEPT !.hours = ParseInt64(st.numberValue)]
    ELSE IF st.labelValue[1] = "m" THEN [st EXCEPT !.minutes = ParseInt64(st.numberValue)]
    ELSE IF st.labelValue[1] = "s" THEN [st EXCEPT !.seconds = ParseInt64(st.numberValue)]
    ELSE [st EXCEPT !.microseconds = ParseInt64(st.numberValue)]

\* consumeValues(): the number read goes to the unit its label names
ConsumeValues(st) ==
    IF st.labelValue = LabelHours THEN [st EXCEPT !.hours = ParseInt64(st.numberValue)]
    ELSE IF st.labelValue = LabelMinutes THEN [st EXCEPT !.minutes = ParseInt64(st.numberValue)]
    ELSE IF st.labelValue = LabelSeconds THEN [st EXCEPT !.seconds = ParseInt64(st.numberValue)]
    ELSE IF st.labelValue = LabelMilliseconds
         THEN [st EXCEPT !.milliseconds = ParseInt64(st.numberValue)]
    ELSE IF st.labelValue = LabelMicroseconds
         THEN [st EXCEPT !.microseconds = ParseInt64(st.numberValue)]
    ELSE st

\* one turn of the loop of ParseDuration over the runes, at rune index
ParseRune(st, duration, index) ==
    LET c == duration[index]
        isLast == (index = Len(duration))
    IN  IF st.state = 0
        THEN IF IsNumber(c)
             THEN [st EXCEPT !.numberValue = @ \o <<c>>]
             ELSE IF isLast
                  THEN ConsumeValues([st EXCEPT !.labelValue = <<c>>])
                  ELSE [st EXCEPT !.labelValue = <<c>>, !.state = 1]
        ELSE IF IsNumber(c)
             THEN [ConsumeValues(st) EXCEPT !.numberValue = <<c>>, !.state = 0]
             ELSE IF isLast
                  THEN ConsumeValues([st EXCEPT !.labelValue = @ \o <<c>>])
                  ELSE [st EXCEPT !.labelValue = @ \o <<c>>]

\* the loop of ParseDuration from rune index on
RECURSIVE ParseRunes(_, _, _)
ParseRunes(st, duration, index) ==
    IF index > Len(duration) THEN st
    ELSE ParseRunes(ParseRune(st, duration, index), duration, index + 1)

\* the variables of ParseDuration before its loop
ParseStart ==
    [state |-> 0, numberValue |-> <<>>, labelValue |-> <<>>, hours |-> 0,
     minutes |-> 0, seconds |-> 0, milliseconds |-> 0, microseconds |-> 0]

\* ParseDuration(duration)
ParseDuration(duration) ==
    IF ParsesAsInt(duration) THEN Nanoseconds(ParseInt64(duration))
    ELSE LET st == ParseRunes(ParseStart, duration, 1)
         IN  DurationAdd(DurationMul(st.hours, TimeHour),
             DurationAdd(DurationMul(st.minutes, TimeMinute),
             DurationAdd(DurationMul(st.seconds, TimeSecond),
             DurationAdd(DurationMul(st.milliseconds, TimeMillisecond),
                         DurationMul(st.microseconds, TimeMicrosecond)))))

\* the durations that are drawn: counts of one, two and three digits in
\* every unit, and nanoseconds below a microsecond
Durations ==
    {DurationAdd(DurationMul(h, TimeHour),
     DurationAdd(DurationMul(m, TimeMinute),
     DurationAdd(DurationMul(sec, TimeSecond),
     DurationAdd(DurationMul(ms, TimeMillisecond),
     DurationAdd(DurationMul(us, TimeMicrosecond), Nanoseconds(ns)))))) :
        h \in (0..MaxHours) \cup {12 * MaxHours}, m \in {0, 1, 10, 59},
        sec \in {0, 5, 59}, ms \in {0, 4, 100, 999}, us \in {0, 3, 50, 999},
        ns \in {0, 1, 999}}

\* a duration is given
DurationInit ==
    /\ now = 0
    /\ host = NewHost(now, MaxStats)
    /\ last = NoProbe
    /\ added = <<>>
    /\ outageStart = NoTime
    /\ outageSum = 0
    /\ outages = 0
    /\ \E d \in Durations :
           ret = [op |-> "given", after |-> "none", in |-> d, ins |-> <<>>,
                  roundTo |-> Nanoseconds(0), d |-> d, s |-> <<>>]
    /\ ChecksInit
    /\ LockedChecksInit
    /\ QueueInit
    /\ MonitorNotStarted

\* FormatDuration(d) of the duration given or returned
CallFormatDuration ==
    /\ ret.op \in {"given", "ParseDuration", "RoundDuration"}
    /\ ret' = [op |-> "FormatDuration", after |-> ret.op, in |-> ret.d, ins |-> ret.s,
               roundTo |-> ret.roundTo, d |-> ret.d, s |-> FormatDuration(ret.d)]
    /\ UNCHANGED <<host, now, last, added, outageStart, outageSum, outages,
                   checksVars, statusVars, queueVars, monitorVars>>

\* ParseDuration(s) of the string returned
CallParseDuration ==
    /\ ret.op = "FormatDuration"
    /\ ret.after # "ParseDuration"
    /\ ret' = [op |-> "ParseDuration", after |-> ret.op, in |-> ret.d, ins |-> ret.s,
               roundTo |-> ret.roundTo, d |-> ParseDuration(ret.s), s |-> ret.s]
    /\ UNCHANGED <<host, now, last, added, outageStart, outageSum, outages,
                   checksVars, statusVars, queueVars, monitorVars>>

\* RoundDuration(d, roundTo) of the duration given
CallRoundDuration ==
    \E roundTo \in TimeUnits :
        /\ ret.op = "given"
        /\ ret' = [op |-> "RoundDuration", after |-> ret.op, in |-> ret.d, ins |-> ret.s,
                   roundTo |-> roundTo, d |-> RoundDuration(ret.d, roundTo), s |-> ret.s]
        /\ UNCHANGED <<host, now, last, added, outageStart, outageSum, outages,
                       checksVars, statusVars, queueVars, monitorVars>>

DurationNext == CallFormatDuration \/ CallParseDuration \/ CallRoundDuration

SpecDuration == DurationInit /\ [][DurationNext]_vars

----------------------------------------------------------------------------
(* The standalone monitor (src/health.go): main starts one pingServer      *)
(* goroutine per host, redraws and calls checkConfig every half second,    *)
(* and when the config file has changed waits for the goroutines and       *)
(* reloads.  The config file is rewritten from outside.                    *)

\* the requests pingServer sends to one host between two reloads
MaxPings == 2

\* the times the config file is rewritten
MaxWrites == 1

\* MAX_STATS
MAX_STATS == 100

\* the hosts of a Config, as a set
HostsOf(c) == {c.Hosts[x] : x \in 1..Len(c.Hosts)}

\* setStatus(host, is_up), its first store: _host_data[host].IsUp = is_up
setStatusIsUp(data, is_up) == [data EXCEPT !.IsUp = is_up]

\* setStatus(host, is_up) calls notification(): the host is set down and
\* has no DownAt.  Nothing else is asked; the Config is not looked at.
setStatusNotifies(data, is_up) == ~is_up /\ data.DownAt = NoTime

\* setStatus(host, is_up), its second store, at time t: DownAt = nil for a
\* host that is up, DownAt = &now after notification() for one that is down
setStatusDownAt(data, is_up, t) ==
    [data EXCEPT !.DownAt = IF is_up THEN NoTime ELSE t]

\* _lock is held: a goroutine is inside setStatus, between its two stores
LockHeld == \E h \in MonitorHosts : pingPc[h] \in {"notification", "setStatusUpDownAt"}

\* the pingServer goroutines whose next step reads the map _host_data: all
\* but those at the test of the flag, in their sleep before it, or ended
MapReaders == {h \in MonitorHosts : pingPc[h] \notin {"none", "test", "done"}}

\* incrementPingCount(host)
incrementPingCount(data) == [data EXCEPT !.PingCount = @ + 1]

\* pushStats(host, elapsed)
pushStats(data, elapsed) ==
    LET pushed_stats == Append(data.Stats, elapsed)
    IN  [data EXCEPT !.Stats = IF Len(pushed_stats) > MAX_STATS
                               THEN Tail(pushed_stats) ELSE pushed_stats]

\* pushError(host, err)
pushError(data) == [data EXCEPT !.Error = TRUE]

\* checkConfig(): the value of _config_did_change after
checkConfig(watch, f, last_write, did_change) ==
    IF watch /\ f.mtime # NoTime /\ last_write # NoTime /\ f.mtime > last_write
    THEN TRUE ELSE did_change

\* reloadConfig(old): the Config returned, _config_last_write and
\* _config_did_change after
reloadConfig(old, f, last_write, did_change) ==
    IF ~f.valid
    THEN [config |-> old, last_write |-> last_write, did_change |-> did_change,
          failed |-> TRUE]
    ELSE [config |-> f.content, last_write |-> f.mtime, did_change |-> FALSE,
          failed |-> FALSE]

\* main that starts the goroutines of the next round without latch.Wait()
MainLatchWaitSkipped ==
    /\ mainPc = "wait"
    /\ mainPc' = "reload"
    /\ UNCHANGED <<hostVars, now, checksVars, statusVars, queueVars, config, file,
                   config_last_write, config_did_change, should_watch_config,
                   host_data, latch, pingPc, notified, reloadFailed, reloads,
                   main_x>>

\* parseFlags(): the Config comes from the config file, which is then
\* watched, or from the command line
MonitorInit ==
    /\ now = 0
    /\ host = NewHost(now, MaxStats)
    /\ last = NoProbe
    /\ added = <<>>
    /\ outageStart = NoTime
    /\ outageSum = 0
    /\ outages = 0
    /\ ret = NoCall
    /\ ChecksInit
    /\ LockedChecksInit
    /\ QueueInit
    /\ \E c \in MonitorConfigs, fromFile \in BOOLEAN :
           /\ config = c
           /\ file = IF fromFile THEN [mtime |-> 0, valid |-> TRUE, content |-> c] ELSE NoFile
           /\ config_last_write = IF fromFile THEN 0 ELSE NoTime
           /\ should_watch_config = fromFile
    /\ config_did_change = FALSE
    /\ host_data = [h \in MonitorHosts |-> NoHostData]
    /\ latch = 0
    /\ mainPc = "start"
    /\ pingPc = [h \in MonitorHosts |-> "none"]
    /\ notified = [h \in MonitorHosts |-> 0]
    /\ reloadFailed = FALSE
    /\ reloads = 0
    /\ main_x = 0

\* main, the top of its loop: latch.Add(len(config.Hosts)), and the loop
\* over the hosts is at the first host
MainStart ==
    /\ mainPc = "start"
    /\ latch' = latch + Len(config.Hosts)
    /\ main_x' = IF Len(config.Hosts) = 0 THEN 0 ELSE 1
    /\ mainPc' = IF Len(config.Hosts) = 0 THEN "render" ELSE "hosts"
    /\ UNCHANGED <<hostVars, now, checksVars, statusVars, queueVars, config, file,
                   config_last_write, config_did_change, should_watch_config,
                   host_data, pingPc, notified, reloadFailed, reloads>>

\* main, one turn of the loop over config.Hosts: a new hostData is written
\* into the map _host_data and the pingServer goroutine of the host is
\* started.  The goroutines of the hosts before it are running by then.
MainStartHost ==
    LET h == config.Hosts[main_x]
        is_last == (main_x = Len(config.Hosts))
    IN  /\ mainPc = "hosts"
        /\ host_data' = [host_data EXCEPT ![h] = NewHostData(h)]
        /\ pingPc' = [pingPc EXCEPT ![h] = "test"]
        /\ main_x' = IF is_last THEN 0 ELSE main_x + 1
        /\ mainPc' = IF is_last THEN "render" ELSE "hosts"
        /\ UNCHANGED <<hostVars, now, checksVars, statusVars, queueVars, config, file,
                       config_last_write, config_did_change, should_watch_config,
                       latch, notified, reloadFailed, reloads>>

\* main writes the map _host_data, without _lock, while a pingServer
\* goroutine started earlier in the loop reads it: a data race, on which
\* the run time may end the program with "fatal error: concurrent map read
\* and map write".  The other outcome is MainStartHost.
MainConcurrentMapWrite ==
    /\ mainPc = "hosts"
    /\ MapReaders # {}
    /\ mainPc' = "fatal"
    /\ UNCHANGED <<hostVars, now, checksVars, statusVars, queueVars, config, file,
                   config_last_write, config_did_change, should_watch_config,
                   host_data, latch, pingPc, notified, reloadFailed, reloads,
                   main_x>>

\* main, one turn of for !_config_did_change: the statuses are drawn, half
\* a second passes, and checkConfig() looks at the file
MainRender ==
    /\ mainPc = "render"
    /\ ~config_did_change
    /\ config_did_change' =
           checkConfig(should_watch_config, file, config_last_write, config_did_change)
    /\ UNCHANGED <<hostVars, now, checksVars, statusVars, queueVars, config, file,
                   config_last_write, should_watch_config, host_data, latch,
                   mainPc, pingPc, notified, reloadFailed, reloads,
                   main_x>>

\* main leaves for !_config_did_change and goes to latch.Wait()
MainLeaveRender ==
    /\ mainPc = "render"
    /\ config_did_change
    /\ mainPc' = "wait"
    /\ UNCHANGED <<hostVars, now, checksVars, statusVars, queueVars, config, file,
                   config_last_write, config_did_change, should_watch_config,
                   host_data, latch, pingPc, notified, reloadFailed, reloads,
                   main_x>>

\* latch.Wait() returns
MainLatchWait ==
    /\ mainPc = "wait"
    /\ latch = 0
    /\ mainPc' = "reload"
    /\ UNCHANGED <<hostVars, now, checksVars, statusVars, queueVars, config, file,
                   config_last_write, config_did_change, should_watch_config,
                   host_data, latch, pingPc, notified, reloadFailed, reloads,
                   main_x>>

\* config = reloadConfig(config), and main is back at the top of its loop
MainReloadConfig ==
    LET r == reloadConfig(config, file, config_last_write, config_did_change)
    IN  /\ mainPc = "reload"
        /\ config' = r.config
        /\ config_last_write' = r.last_write
        /\ config_did_change' = r.did_change
        /\ reloadFailed' = r.failed
        /\ reloads' = IF r.failed THEN reloads ELSE reloads + 1
        /\ mainPc' = "start"
        /\ UNCHANGED <<hostVars, now, checksVars, statusVars, queueVars, file,
                       should_watch_config, host_data, latch, pingPc, notified,
                       main_x>>

\* pingServer(host), for !_config_did_change: the request is sent, or the
\* loop ends and the goroutine calls latch.Done()
PingServerTest ==
    \E h \in MonitorHosts :
        /\ mainPc # "fatal"
        /\ pingPc[h] = "test"
        /\ IF config_did_change
           THEN /\ pingPc' = [pingPc EXCEPT ![h] = "done"]
                /\ latch' = latch - 1
           ELSE /\ host_data[h].PingCount < MaxPings
                /\ pingPc' = [pingPc EXCEPT ![h] = "request"]
                /\ latch' = latch
        /\ UNCHANGED <<hostVars, now, checksVars, statusVars, queueVars, config, file,
                       config_last_write, config_did_change, should_watch_config,
                       host_data, mainPc, notified, reloadFailed, reloads,
                       main_x>>

\* pingServer(host): req.FetchRawResponse() comes back and
\* incrementPingCount(host) runs under _lock; what is called next depends
\* on the response
PingServerResponse ==
    \E h \in MonitorHosts, res \in FetchResults :
        LET is_up == (res.kind = "response" /\ res.status = StatusOK)
        IN  /\ mainPc # "fatal"
            /\ pingPc[h] = "request"
            /\ ~LockHeld
            /\ host_data' = [host_data EXCEPT ![h] = incrementPingCount(@)]
            /\ pingPc' = [pingPc EXCEPT ![h] = IF is_up THEN "pushStats" ELSE "setStatusDown"]
            /\ UNCHANGED <<hostVars, now, checksVars, statusVars, queueVars, config, file,
                           config_last_write, config_did_change, should_watch_config,
                           latch, mainPc, notified, reloadFailed, reloads,
                           main_x>>

\* pingServer(host), the request failed or the status was not 200:
\* setStatus(host, false) takes _lock and stores IsUp = false.  For a host
\* with a DownAt that is all, and _lock is released; for one without,
\* notification() is called, which runs osascript and waits for it, with
\* _lock held and DownAt still nil.
PingServerSetStatusDown ==
    \E h \in MonitorHosts :
        LET notifies == setStatusNotifies(host_data[h], FALSE)
        IN  /\ mainPc # "fatal"
            /\ pingPc[h] = "setStatusDown"
            /\ ~LockHeld
            /\ host_data' = [host_data EXCEPT ![h] = setStatusIsUp(@, FALSE)]
            /\ notified' = [notified EXCEPT ![h] = IF notifies THEN @ + 1 ELSE @]
            /\ pingPc' = [pingPc EXCEPT ![h] =
                              IF notifies THEN "notification" ELSE "pushError"]
            /\ UNCHANGED <<hostVars, now, checksVars, statusVars, queueVars, config, file,
                           config_last_write, config_did_change, should_watch_config,
                           latch, mainPc, reloadFailed, reloads,
                           main_x>>

\* setStatus(host, false) goes on: notification() has returned, DownAt is
\* stored and _lock is released
PingServerNotification ==
    \E h \in MonitorHosts :
        /\ mainPc # "fatal"
        /\ pingPc[h] = "notification"
        /\ host_data' = [host_data EXCEPT ![h] = setStatusDownAt(@, FALSE, now)]
        /\ pingPc' = [pingPc EXCEPT ![h] = "pushError"]
        /\ UNCHANGED <<hostVars, now, checksVars, statusVars, queueVars, config, file,
                       config_last_write, config_did_change, should_watch_config,
                       latch, mainPc, notified, reloadFailed, reloads,
                       main_x>>

\* pingServer(host): pushError(host, err) runs under _lock, and the
\* goroutine sleeps for the rest of the poll interval
PingServerPushError ==
    \E h \in MonitorHosts :
        /\ mainPc # "fatal"
        /\ pingPc[h] = "pushError"
        /\ ~LockHeld
        /\ host_data' = [host_data EXCEPT ![h] = pushError(@)]
        /\ pingPc' = [pingPc EXCEPT ![h] = "test"]
        /\ UNCHANGED <<hostVars, now, checksVars, statusVars, queueVars, config, file,
                       config_last_write, config_did_change, should_watch_config,
                       latch, mainPc, notified, reloadFailed, reloads,
                       main_x>>

\* pingServer(host), the status was 200: pushStats(host, elapsed) runs
\* under _lock
PingServerPushStats ==
    \E h \in MonitorHosts, elapsed \in {MaxElapsed} :
        /\ mainPc # "fatal"
        /\ pingPc[h] = "pushStats"
        /\ ~LockHeld
        /\ host_data' = [host_data EXCEPT ![h] = pushStats(@, elapsed)]
        /\ pingPc' = [pingPc EXCEPT ![h] = "setStatusUp"]
        /\ UNCHANGED <<hostVars, now, checksVars, statusVars, queueVars, config, file,
                       config_last_write, config_did_change, should_watch_config,
                       latch, mainPc, notified, reloadFailed, reloads,
                       main_x>>

\* pingServer(host): setStatus(host, true) takes _lock and stores
\* IsUp = true; DownAt is still what it was
PingServerSetStatusUp ==
    \E h \in MonitorHosts :
        /\ mainPc # "fatal"
        /\ pingPc[h] = "setStatusUp"
        /\ ~LockHeld
        /\ host_data' = [host_data EXCEPT ![h] = setStatusIsUp(@, TRUE)]
        /\ pingPc' = [pingPc EXCEPT ![h] = "setStatusUpDownAt"]
        /\ UNCHANGED <<hostVars, now, checksVars, statusVars, queueVars, config, file,
                       config_last_write, config_did_change, should_watch_config,
                       latch, mainPc, notified, reloadFailed, reloads,
                       main_x>>

\* setStatus(host, true) goes on: DownAt = nil, _lock is released, and the
\* goroutine sleeps for the rest of the poll interval
PingServerSetStatusUpDownAt ==
    \E h \in MonitorHosts :
        /\ mainPc # "fatal"
        /\ pingPc[h] = "setStatusUpDownAt"
        /\ host_data' = [host_data EXCEPT ![h] = setStatusDownAt(@, TRUE, now)]
        /\ pingPc' = [pingPc EXCEPT ![h] = "test"]
        /\ UNCHANGED <<hostVars, now, checksVars, statusVars, queueVars, config, file,
                       config_last_write, config_did_change, should_watch_config,
                       latch, mainPc, notified, reloadFailed, reloads,
                       main_x>>

\* the config file is rewritten: with a Config, or with text that does not
\* decode
FileWrite ==
    \E valid \in BOOLEAN, c \in MonitorConfigs :
        /\ should_watch_config
        /\ file.mtime < MaxWrites
        /\ file' = [mtime |-> file.mtime + 1, valid |-> valid,
                    content |-> IF valid THEN c ELSE NoConfig]
        /\ UNCHANGED <<hostVars, now, checksVars, statusVars, queueVars, config,
                       config_last_write, config_did_change, should_watch_config,
                       host_data, latch, mainPc, pingPc, notified,
                       reloadFailed, reloads,
                   main_x>>

MonitorNext ==
    \/ MainStart
    \/ MainStartHost
    \/ MainConcurrentMapWrite
    \/ MainRender
    \/ MainLeaveRender
    \/ MainLatchWait
    \/ MainReloadConfig
    \/ PingServerTest
    \/ PingServerResponse
    \/ PingServerSetStatusDown
    \/ PingServerNotification
    \/ PingServerPushError
    \/ PingServerPushStats
    \/ PingServerSetStatusUp
    \/ PingServerSetStatusUpDownAt
    \/ FileWrite

SpecMonitor == MonitorInit /\ [][MonitorNext]_vars

\* The monitor under the fairness its run time gives: main and every
\* pingServer goroutine take their next step, and a request comes back
\* (each carries its timeout).  Nothing makes anyone rewrite the file.
SpecMonitorFair ==
    /\ MonitorInit
    /\ [][MonitorNext]_vars
    /\ WF_vars(MainStart)
    /\ WF_vars(MainStartHost)
    /\ WF_vars(MainRender)
    /\ WF_vars(MainLeaveRender)
    /\ WF_vars(MainLatchWait)
    /\ WF_vars(MainReloadConfig)
    /\ WF_vars(PingServerTest)
    /\ WF_vars(PingServerResponse)
    /\ WF_vars(PingServerSetStatusDown)
    /\ WF_vars(PingServerNotification)
    /\ WF_vars(PingServerPushError)
    /\ WF_vars(PingServerPushStats)
    /\ WF_vars(PingServerSetStatusUp)
    /\ WF_vars(PingServerSetStatusUpDownAt)

----------------------------------------------------------------------------
(* Properties of the host, checked under Spec *)

\* C1: after k calls of AddTiming on a host of capacity N >= 1 the window
\* holds exactly min(N, k) samples, and they are the last min(N, k) samples
\* inserted, in insertion order: the oldest sample is the one evicted.
WindowHoldsLastSamples ==
    LET k == Len(added)
        m == Min(host.maxStats, k)
    IN  /\ Len(host.stats) = m
        /\ host.stats = SubSeq(added, k - m + 1, k)

\* C1 happens: at least two samples were evicted from a window of two or
\* more, and the evicted first sample differs from the newest.
WindowHasEvicted ==
    /\ host.maxStats >= 2
    /\ Len(added) >= host.maxStats + 2
    /\ added[1] # added[Len(added)]
    /\ Len(host.stats) = host.maxStats

\* C2: downAt is set by the first failed probe of an outage, to the time
\* that failure was recorded, and every further consecutive failed probe
\* leaves it unchanged; the recovering probe then counts the outage once,
\* from its first failure.
DownAtSetOncePerOutage ==
    [][ /\ (last.err /\ last'.err) => host'.downAt = host.downAt
        /\ (~last.err /\ last'.err) => host'.downAt = now'
        /\ (last.err /\ ~last'.err) =>
               host'.downtime = host.downtime + (now' - outageStart) ]_vars

\* C2 happens: the host is down, the last probe failed, and an earlier
\* failure opened the outage (downAt is older than the last probe).
SecondFailureOfOutage ==
    /\ last.err
    /\ host.downAt # NoTime
    /\ host.downAt < now - last.elapsed

\* C3: a successful probe on a down host adds (now - downAt) to the
\* cumulative downtime and clears downAt, so the cumulative downtime is the
\* sum over the completed outages of (time of the recovering probe - time
\* the first failure was recorded).
DowntimeIsSumOfOutages ==
    /\ host.downtime = outageSum
    /\ (last.kind # "none" /\ ~last.err) => host.downAt = NoTime

\* C3 happens: the host recovered with the last probe, from its second
\* outage or a later one.
RecoveredWithDowntime ==
    /\ last.kind # "none" /\ ~last.err
    /\ outages >= 2
    /\ outageSum >= 3
    /\ host.downAt = NoTime

\* C4: the cumulative downtime never decreases.
DowntimeNeverDecreases ==
    [][host'.downtime >= host.downtime]_vars

\* C4 happens: a second outage has been completed after a first one.
SecondOutageCompleted ==
    /\ outages = 2
    /\ host.downtime >= 3
    /\ IsUp(host)

\* C5: TotalDowntime() is the cumulative downtime when the host is up and
\* the cumulative downtime plus (now - downAt) when it is down, which is
\* the completed outages plus the open one; while the host stays down the
\* value grows with the clock and the host's state does not change.
TotalDowntimeIncludesOpenWindow ==
    /\ [](/\ IsUp(host) => TotalDowntime(host, now) = host.downtime
          /\ ~IsUp(host) =>
                TotalDowntime(host, now) = host.downtime + (now - host.downAt)
          /\ TotalDowntime(host, now) =
                outageSum + (IF last.err THEN now - outageStart ELSE 0))
    /\ [][(host' = host /\ last.err) =>
             TotalDowntime(host', now') = TotalDowntime(host, now) + (now' - now)]_vars

\* C5 happens: the host is down, with completed downtime behind it and an
\* open down window that the clock has extended since the failure.
DownWithOpenWindow ==
    /\ ~IsUp(host)
    /\ host.downtime > 0
    /\ now > host.downAt + 1

\* C6: in every reachable state and at every time the uptime fraction of
\* the status line is within [0, 1], and it is 1.0 when no downtime has been
\* recorded and when no time has elapsed.
UptimeFractionInUnitInterval ==
    /\ InUnitInterval(UptimePCT(host, now))
    /\ TotalDowntime(host, now) = 0 => IsOne(UptimePCT(host, now))
    /\ TotalTime(host, now) = 0 => IsOne(UptimePCT(host, now))

\* C7: every completed probe, failed or not, appends its elapsed time to the
\* window: after a probe the newest sample is that probe's elapsed time.
ProbeAlwaysRecorded ==
    last.kind # "none" =>
        /\ host.stats # <<>>
        /\ host.stats[Len(host.stats)] = last.elapsed

\* C7 happens: the last probe failed and its elapsed time differs from the
\* sample recorded before it.
FailedProbeRecorded ==
    /\ last.err
    /\ Len(host.stats) >= 2
    /\ host.stats[Len(host.stats) - 1] # last.elapsed

\* C8: a probe is successful iff the request completed without transport
\* error or timeout and the status code s satisfies 200 <= s < 300.
PingSucceedsIff2xx ==
    last.kind # "none" =>
        (~last.err <=>
            (last.kind = "response" /\ 200 <= last.status /\ last.status < 300))

\* C38: SetUp() on a host that is up changes nothing: downAt stays unset
\* and the cumulative downtime is unchanged, so a successful probe of an up
\* host adds no downtime.
SetUpOnUpHostChangesNothing ==
    /\ [](IsUp(host) => SetUp(host, now) = host)
    /\ [][(IsUp(host) /\ last'.kind # "none" /\ ~last'.err) =>
             /\ host'.downAt = NoTime
             /\ host'.downtime = host.downtime]_vars

\* C38 happens: three or more probes have completed, all successful (the
\* host is up and no outage was ever completed), and no downtime is counted.
ThreeSuccessesNoDowntime ==
    /\ Len(added) >= 3
    /\ ~last.err
    /\ IsUp(host)
    /\ outages = 0
    /\ host.downtime = 0
    /\ now - host.startedAtUTC >= 4

\* C39: TotalDowntime() is continuous across recovery and non-decreasing:
\* at the instant t of a SetUp() it is the same before and after the call,
\* and no step of a run makes it smaller.
TotalDowntimeContinuous ==
    /\ [](TotalDowntime(SetUp(host, now), now) = TotalDowntime(host, now))
    /\ [][(last.err /\ ~last'.err) =>
             TotalDowntime(host', now') = TotalDowntime(host, now')]_vars
    /\ [][TotalDowntime(host', now') >= TotalDowntime(host, now)]_vars

\* C39 happens: the second probe has just recovered the host from the outage
\* the first probe opened, and the downtime counted is two ticks or more.
RecoveredBySecondProbe ==
    /\ Len(added) = 2
    /\ ~last.err
    /\ outages = 1
    /\ IsUp(host)
    /\ host.downtime >= 2
    /\ TotalDowntime(host, now) = host.downtime

----------------------------------------------------------------------------
(* Properties of the statistics, checked under SpecStats *)

\* the number of samples of window s that are below v, and at most v
CountBelow(s, v) == Cardinality({j \in 1..Len(s) : s[j] < v})

CountAtMost(s, v) == Cardinality({j \in 1..Len(s) : s[j] <= v})

\* the k-th smallest sample of window s, k in 1..Len(s)
KthSmallest(s, k) ==
    CHOOSE v \in {s[j] : j \in 1..Len(s)} :
        CountBelow(s, v) < k /\ k <= CountAtMost(s, v)

\* C9: when idx = (p/100)*n is a whole number with 1 <= idx < n,
\* Percentile(p) returns the average of the idx-th and the (idx+1)-th
\* smallest samples (values[idx-1] and values[idx] of the sorted copy).
PercentileMidpointAtWholeIndex ==
    LET n == Len(host.stats)
    IN  (/\ ret.op = "Percentile"
         /\ (ret.p * n) % 100 = 0
         /\ 1 <= (ret.p * n) \div 100
         /\ (ret.p * n) \div 100 < n) =>
            /\ ret.ok
            /\ ret.value = (KthSmallest(host.stats, (ret.p * n) \div 100)
                            + KthSmallest(host.stats, (ret.p * n) \div 100 + 1)) \div 2

\* C9 happens: the 80th percentile of five samples, recorded out of order,
\* whose 4th and 5th smallest differ.
PercentileMidpointTaken ==
    /\ ret.op = "Percentile"
    /\ ret.p = 80
    /\ Len(host.stats) = 5
    /\ host.stats[1] > host.stats[5]
    /\ KthSmallest(host.stats, 4) + 2 = KthSmallest(host.stats, 5)
    /\ ret.value = KthSmallest(host.stats, 4) + 1

\* C10: on a non-empty window Percentile(p) returns a duration for every p
\* of [0, 100] and never fails with an out-of-range access.
PercentileNeverPanics ==
    (ret.op = "Percentile" /\ host.stats # <<>>) => ret.ok

\* the rounded index of Percentile(p) on a window of n samples: p * n / 100,
\* a fraction of a half or more rounded up
RoundedIndex(p, n) == (p * n + 50) \div 100

\* C11: when idx = (p/100)*n is not a whole number, Percentile(p) returns
\* the sorted sample at position round-half-up(idx), counted from 1.
PercentileRoundsHalfUp ==
    LET n == Len(host.stats)
    IN  (/\ ret.op = "Percentile"
         /\ (ret.p * n) % 100 # 0
         /\ RoundedIndex(ret.p, n) >= 1) =>
            /\ ret.ok
            /\ ret.value = KthSmallest(host.stats, RoundedIndex(ret.p, n))

\* C11 happens: the 50th percentile of five samples (idx = 2.5) is the 3rd
\* smallest, which differs from the 2nd and the 4th.
PercentileHalfRoundedUp ==
    /\ ret.op = "Percentile"
    /\ ret.p = 50
    /\ Len(host.stats) = 5
    /\ KthSmallest(host.stats, 2) < KthSmallest(host.stats, 3)
    /\ KthSmallest(host.stats, 3) < KthSmallest(host.stats, 4)
    /\ ret.value = KthSmallest(host.stats, 3)

\* C12: Percentile(p) returns the zero duration, and does not fail, whenever
\* the rounded index is below 1: for every p on an empty window and for
\* p = 0 on any window.
PercentileZeroBelowFirstIndex ==
    (/\ ret.op = "Percentile"
     /\ RoundedIndex(ret.p, Len(host.stats)) < 1) =>
        /\ ret.ok
        /\ ret.value = 0

\* C12 happens: Percentile(0) on a window of non-zero samples returned zero.
PercentileZeroOfNonZeroSamples ==
    /\ ret.op = "Percentile"
    /\ ret.p = 0
    /\ Len(host.stats) >= 2
    /\ \A j \in 1..Len(host.stats) : host.stats[j] > 0
    /\ ret.ok
    /\ ret.value = 0

\* C13: Mean() on an empty window returns the zero duration and does not
\* fail with a division by zero.
MeanOfEmptyWindowIsZero ==
    (ret.op = "Mean" /\ host.stats = <<>>) => (ret.ok /\ ret.value = 0)

\* the sum of s[lo], ..., s[hi]
RECURSIVE SumRange(_, _, _)
SumRange(s, lo, hi) == IF lo > hi THEN 0 ELSE s[lo] + SumRange(s, lo + 1, hi)

\* C14: Mean() on a non-empty window is the sum of the retained samples, the
\* last min(N, k) of the k recorded, divided by their number (integer
\* division); evicted samples do not contribute.
MeanOfRetainedSamples ==
    LET k == Len(added)
        m == Min(host.maxStats, k)
    IN  (ret.op = "Mean" /\ k >= 1) =>
            /\ ret.ok
            /\ ret.value = SumRange(added, k - m + 1, k) \div m

\* C14 happens: Mean() was taken after a non-zero sample had been evicted,
\* over retained samples whose sum is not a multiple of their number.
MeanAfterEviction ==
    /\ ret.op = "Mean"
    /\ Len(added) > host.maxStats
    /\ added[1] > 0
    /\ host.maxStats >= 2
    /\ ret.value * Len(host.stats) < SumRange(host.stats, 1, Len(host.stats))

\* C15: Percentile() leaves the window unchanged: the samples and their
\* insertion order are the same after the call as before, they are still
\* the last samples added, oldest first, and Mean(), the last sample and
\* the most-recent-first listing are what they were.
PercentileLeavesWindow ==
    [][ret'.op = "Percentile" =>
          LET k == Len(added)
              m == Min(host.maxStats, k)
          IN  /\ host'.stats = host.stats
              /\ Len(host'.stats) = m
              /\ host'.stats = SubSeq(added, k - m + 1, k)
              /\ Mean(host') = Mean(host)
              /\ Last5(host') = Last5(host)]_vars

\* C15 happens: Percentile() was called on a window of three or more
\* samples that are not in ascending order, and the slice it sorted holds
\* them in ascending order.
PercentileOfUnsortedWindow ==
    /\ ret.op = "Percentile"
    /\ Len(host.stats) >= 3
    /\ host.stats # SortDurations(host.stats)
    /\ PercentileValues(host) = SortDurations(host.stats)

----------------------------------------------------------------------------
(* Properties of the scheduler, checked under SpecChecks *)

\* C16: the interval callback runs only after the probe of every host of
\* the round has returned and has updated its host: no probe is in flight,
\* and every host has the outcome and the sample of each round begun.
CallbackAfterAllProbes ==
    startPc = "callback" =>
        \A x \in 1..Len(chosts) :
            /\ inflight[x] = 0
            /\ issued[x] = round
            /\ outcome[x] # NoOutcome
            /\ Len(chosts[x].h.stats) = Min(chosts[x].h.maxStats, round)

\* C16 happens: the callback of the second round runs, with a host that is
\* down and a host that is up.
CallbackOfSecondRound ==
    /\ startPc = "callback"
    /\ round = 2
    /\ \E x \in 1..Len(chosts) : ~IsUp(chosts[x].h)
    /\ \E x \in 1..Len(chosts) : IsUp(chosts[x].h)

\* C17: rounds are strictly sequential: a round begins only from the select,
\* when every probe of the round before has returned and its callback has
\* returned; at most one probe per host is in flight, and hosts change only
\* while Start waits for the probes, never while the callback runs.
RoundsAreSequential ==
    /\ [](\A x \in 1..Len(chosts) :
            /\ inflight[x] <= 1
            /\ startPc = "callback" => inflight[x] = 0)
    /\ [][round' # round =>
            /\ startPc = "select"
            /\ wg = 0
            /\ \A x \in 1..Len(chosts) : inflight[x] = 0]_vars
    /\ [][chosts' # chosts => (startPc = "wait" /\ startPc' = "wait")]_vars

\* C17 happens: the second round is in flight, begun after a first round
\* in which a probe outlasted the ticker's period.
SecondRoundAfterLongRound ==
    /\ round = 2
    /\ startPc = "wait"
    /\ \E x \in 1..Len(chosts) :
          /\ inflight[x] = 1
          /\ chosts[x].h.stats # <<>>
          /\ chosts[x].h.stats[1] >= 1

\* C18: a round ends with every host updated from its own probe alone: a
\* host whose probe timed out is Down, a host whose probe succeeded is Up,
\* each with one new sample; the round can complete once the last probe has
\* returned; and a probe that returns changes no host but its own.
RoundIsolatesFailures ==
    /\ [](startPc = "callback" =>
            \A x \in 1..Len(chosts) :
                /\ outcome[x].kind = "timeout" => ~IsUp(chosts[x].h)
                /\ outcome[x].kind = "response" => IsUp(chosts[x].h)
                /\ Len(chosts[x].h.stats) = Min(chosts[x].h.maxStats, round))
    /\ []((startPc = "wait" /\ \A x \in 1..Len(chosts) : inflight[x] = 0)
            => WaitDone(wg))
    /\ [][\A x \in 1..Len(chosts) :
            chosts'[x] # chosts[x] =>
                /\ inflight'[x] = inflight[x] - 1
                /\ \A y \in 1..Len(chosts) : y # x => chosts'[y] = chosts[y]]_vars

\* C18 happens: a round over a, b, c has ended in which b timed out and a and
\* c succeeded: a and c are Up and b is Down, each with its sample.
RoundWithOneTimeout ==
    /\ startPc = "callback"
    /\ round = 1
    /\ outcome[1].kind = "response"
    /\ outcome[2].kind = "timeout"
    /\ outcome[3].kind = "response"
    /\ IsUp(chosts[1].h) /\ ~IsUp(chosts[2].h) /\ IsUp(chosts[3].h)
    /\ \A x \in 1..3 : Len(chosts[x].h.stats) = 1

\* C19: every round issues exactly one probe for each configured host, and
\* the hosts held by Checks are those of the configuration, in its order.
EveryRoundProbesEveryHost ==
    /\ Len(chosts) = Len(ConfigHosts)
    /\ \A x \in 1..Len(ConfigHosts) :
          /\ chosts[x].url = ConfigHosts[x]
          /\ issued[x] = round

\* C19 happens: two rounds have been run to their end.
TwoRoundsIssued ==
    /\ round = 2
    /\ startPc = "callback"
    /\ \A x \in 1..Len(chosts) : issued[x] = 2

\* C20: once Stop() has been called on a running Checks, Start() begins no
\* further round.
NoRoundAfterStopCalled ==
    roundAtStop # NoRound => round = roundAtStop

\* C21: if Stop() is called while Start() is running, be it at the select,
\* while a round is in flight or during the callback, and every probe
\* returns, then Start() returns and Stop() returns, unless the callback has
\* ended the process on a write error before.
StopEndsStartAndStop ==
    (stopPc = "sending" /\ startPc \notin {"idle", "returned", "exited"})
        ~> \/ (startPc = "returned" /\ stopPc = "returned")
           \/ startPc = "exited"

\* C21 happens: Start() and Stop() have returned after a Stop() that was
\* called while the probes of all hosts were in flight.
StoppedDuringRound ==
    /\ startPc = "returned"
    /\ stopPc = "returned"
    /\ stopInRound

\* C22: a probe that fails changes its host alone, which is Down with the
\* elapsed time recorded, and leaves Start() where it is; Start() ends only
\* on a Stop(); and whenever the loop is at its select with a tick waiting
\* the next round can begin, and a round that begins issues a probe for
\* every host, whatever its last probe came back with.
FailedProbeIsAbsorbed ==
    /\ [][\A x \in 1..Len(chosts) :
            (inflight'[x] < inflight[x] /\ outcome'[x].kind = "timeout") =>
                /\ ~IsUp(chosts'[x].h)
                /\ chosts'[x].h.stats # <<>>
                /\ chosts'[x].h.stats[Len(chosts'[x].h.stats)] = now - begin[x]
                /\ startPc' = startPc]_vars
    /\ [](startPc \in {"aborted", "returned"} => stopPc \in {"receiving", "returned"})
    /\ []((startPc = "select" /\ tickPending) => ENABLED SelectTick)
    /\ [][round' = round + 1 =>
            \A x \in 1..Len(chosts) :
                /\ inflight'[x] = 1
                /\ issued'[x] = issued[x] + 1]_vars

\* C22 happens: no Stop() was called, and a host whose probe timed out in
\* the first round, and which is Down, has its probe of the second round in
\* flight.
FailedHostProbedAgain ==
    /\ stopPc = "idle"
    /\ round = 2
    /\ \E x \in 1..Len(chosts) :
          /\ outcome[x].kind = "timeout"
          /\ ~IsUp(chosts[x].h)
          /\ inflight[x] = 1

\* C27: Checks.WriteStatus returns nil when no write fails and, when the
\* write of a host's line (or of the closing newline) fails, the error of
\* that write; and the call, failed or not, leaves every host as it was:
\* downAt, cumulative downtime and the window are unchanged.
WriteStatusReturnsErrorAndLeavesHosts ==
    [][(startPc = "callback" /\ startPc' # "callback") =>
          /\ ret'.op = "WriteStatus"
          /\ ret'.p = 0 => (ret'.ok /\ ret'.value = 0)
          /\ ret'.p # 0 => (~ret'.ok /\ ret'.value = ret'.p)
          /\ chosts' = chosts]_vars

\* C27 happens: the write of the second host's line failed, WriteStatus
\* returned that error, and the hosts, one of them down, hold their samples
\* of the round.
WriteOfSecondLineFailed ==
    /\ ret.op = "WriteStatus"
    /\ ret.p = 2
    /\ ~ret.ok
    /\ ret.value = 2
    /\ \E x \in 1..Len(chosts) : ~IsUp(chosts[x].h)
    /\ \A x \in 1..Len(chosts) : Len(chosts[x].h.stats) = round

\* C28: after the render step of a round has failed with a write error the
\* monitor is still running, ready to probe the hosts on the next tick.
RenderErrorKeepsMonitorRunning ==
    (ret.op = "WriteStatus" /\ ~ret.ok) => startPc # "exited"

----------------------------------------------------------------------------
(* Properties of the status line, checked under SpecRender *)

\* C23: WriteStatus writes one of three lines, chosen by the host's state:
\* DOWN iff the host is down, UNKNOWN iff it is not down and has no sample,
\* UP iff it is not down and has at least one sample.
StatusLineByState ==
    ret.op = "WriteStatus" =>
        /\ ret.line.status \in {"DOWN", "UNKNOWN", "UP"}
        /\ ret.line.status = "DOWN" <=> host.downAt # NoTime
        /\ ret.line.status = "UNKNOWN" <=>
               (host.downAt = NoTime /\ Len(host.stats) = 0)
        /\ ret.line.status = "UP" <=>
               (host.downAt = NoTime /\ Len(host.stats) >= 1)

\* C23 happens: the DOWN line was written for a down host that holds three
\* samples or more.
DownLineWithSamples ==
    /\ ret.op = "WriteStatus"
    /\ ret.ok
    /\ ret.line.status = "DOWN"
    /\ host.downAt # NoTime
    /\ Len(host.stats) >= 3

\* C24: the host renders as UNKNOWN exactly as long as none of its probes
\* has completed; from the first completed probe on it renders as UP when
\* the last probe succeeded and as DOWN when it failed.
UnknownUntilFirstProbe ==
    ret.op = "WriteStatus" =>
        /\ ret.line.status = "UNKNOWN" <=> Len(added) = 0
        /\ (Len(added) >= 1 /\ ~last.err) => ret.line.status = "UP"
        /\ (Len(added) >= 1 /\ last.err) => ret.line.status = "DOWN"

\* C24 happens: the status written after the first probe, which succeeded,
\* is UP.
FirstProbeRendersUp ==
    /\ ret.op = "WriteStatus"
    /\ Len(added) = 1
    /\ ~last.err
    /\ ret.line.status = "UP"

\* C25: no host is constructed with a window capacity below 1.
CapacityAtLeastOne ==
    host.maxStats >= 1

\* C26: the samples of the sparkline are the min(5, window length) most
\* recently recorded samples, most recent first, and Last is the most
\* recently recorded sample.
SparklineNewestFirst ==
    (ret.op = "WriteStatus" /\ ret.line.status = "UP") =>
        LET k == Len(added)
            m == Min(5, Len(host.stats))
        IN  /\ Len(ret.line.last5) = m
            /\ \A j \in 1..m : ret.line.last5[j] = added[k - j + 1]
            /\ ret.line.last = added[k]

\* C26 happens: the UP line was written for a window of six samples; the
\* sparkline has five, the first and the fifth differ, and the oldest sample
\* of the window differs from the fifth.
SparklineOfFullWindow ==
    /\ ret.op = "WriteStatus"
    /\ ret.line.status = "UP"
    /\ Len(host.stats) = 6
    /\ Len(ret.line.last5) = 5
    /\ ret.line.last5[1] # ret.line.last5[5]
    /\ host.stats[1] # ret.line.last5[5]

----------------------------------------------------------------------------
(* Properties of the scheduler with the lock, checked under SpecStatus *)

\* C29: Status() never reads a host while a probe goroutine is between the
\* writes of its doPing (the host set down or up, the elapsed time not yet
\* recorded).
StatusExcludesProbeWrites ==
    \A x \in 1..Len(chosts) :
        statusPc = x => pending[x] = NoTime

----------------------------------------------------------------------------
(* Properties of the duration queue, checked under SpecQueue *)

\* C30: DurationQueue is a FIFO.  Pop returns the values in the order they
\* were pushed; the queue holds the values pushed and not yet popped, oldest
\* first; Peek returns the oldest of them and removes nothing; Length is the
\* pushes minus the successful pops; Head is nil iff Tail is nil iff Length
\* is 0; Pop and Peek on an empty queue return nil and leave Length at 0.
DurationQueueIsFifo ==
    /\ [](/\ Len(popped) <= Len(pushed)
          /\ popped = SubSeq(pushed, 1, Len(popped))
          /\ ToArray(dq, nodes) = SubSeq(pushed, Len(popped) + 1, Len(pushed))
          /\ dq.Length = Len(pushed) - Len(popped)
          /\ (dq.Head = Nil) <=> (dq.Tail = Nil)
          /\ (dq.Head = Nil) <=> (dq.Length = 0)
          /\ ret.op = "Peek" =>
                IF dq.Length = 0 THEN ~ret.ok
                ELSE ret.ok /\ ret.value = pushed[Len(popped) + 1])
    /\ [][/\ ret'.op = "Peek" => (dq' = dq /\ nodes' = nodes)
          /\ (ret'.op = "Pop" /\ dq.Length = 0) => (~ret'.ok /\ dq'.Length = 0)
          /\ (ret'.op = "Pop" /\ dq.Length > 0) =>
                (ret'.ok /\ ret'.value = pushed[Len(popped) + 1])]_vars

\* C30 happens: after three pushes or more, two pops have returned the first
\* two values pushed, which differ from each other, the second differs from
\* the newest value, and a value is left in the queue.
SecondValuePopped ==
    /\ ret.op = "Pop"
    /\ ret.ok
    /\ Len(pushed) >= 3
    /\ Len(popped) = 2
    /\ popped[1] # popped[2]
    /\ ret.value = pushed[2]
    /\ ret.value # pushed[Len(pushed)]
    /\ dq.Length >= 1

----------------------------------------------------------------------------
(* Properties of Stop(), checked under SpecStop and SpecChecks *)

\* C35: Stop() returns only after a Start() loop has received the abort at
\* its select and has sent the acknowledgement; while no Start() loop can
\* reach its select (Start() not called, Start() returned after an earlier
\* Stop(), or Stop() called by the callback on Start's own goroutine) a
\* Stop() stays blocked in its send.
StopWaitsForStart ==
    /\ [][(stopPc = "sending" /\ stopPc' # "sending") =>
             (startPc = "select" /\ startPc' = "aborted" /\ stopPc' = "receiving")]_vars
    /\ [][(stopPc # "returned" /\ stopPc' = "returned") =>
             (stopPc = "receiving" /\ startPc = "aborted" /\ startPc' = "returned")]_vars
    /\ []((stopPc = "sending" /\ startPc \in {"idle", "returned", "stopping"})
             => ~ENABLED SelectAbort)
    /\ [][(startPc \in {"returned", "stopping"}) => (startPc' = startPc)]_vars

\* C35 happens: a second Stop() is blocked in its send after Start() has
\* returned to the first one, with a round run before.
SecondStopBlocked ==
    /\ stopPc = "sending"
    /\ startPc = "returned"
    /\ round >= 1

\* C36: once Stop() has returned, Start() has returned too and no probe is
\* in flight; from then on no round starts, no probe is issued and the
\* interval callback is not entered, whatever the ticker still delivers.
NothingRunsAfterStopReturned ==
    /\ [](stopPc = "returned" =>
             /\ startPc = "returned"
             /\ wg = 0
             /\ \A i \in 1..Len(chosts) : inflight[i] = 0)
    /\ [][(stopPc = "returned") =>
             /\ round' = round
             /\ issued' = issued
             /\ inflight' = inflight
             /\ chosts' = chosts
             /\ startPc' = "returned"]_vars

\* C36 happens: Stop() has returned after a round, the clock has run to
\* its end and a tick is waiting that nobody will take.
TickWaitsAfterStopReturned ==
    /\ stopPc = "returned"
    /\ round >= 1
    /\ tickPending
    /\ now = MaxTicks

\* C37: with the running flag, a Stop() that runs before Start() has set
\* the flag changes nothing: Start() sets the flag, does not return and
\* goes on starting rounds until Stop() is called again.  A Stop() that
\* runs while Start() loops clears the flag: Start() finishes the round it
\* is in, its callback and its sleep, starts no other round, and returns
\* at the next test of the flag.  A Status() that panics ends the program,
\* and Start() with it, wherever it is.
EarlyStopIsLostLateStopEndsLoop ==
    /\ [][(stopPc = "early" /\ startPc = "idle" /\ startPc' # "idle") => running']_vars
    /\ []((stopPc = "early" /\ startPc # "idle") =>
             /\ running
             /\ startPc # "returned"
             /\ ((startPc = "loop" /\ statusAt # "panic") => ENABLED FlagRound))
    /\ [](stopPc = "returned" =>
             /\ ~running
             /\ round = roundAtStop
             /\ ~ENABLED FlagRound
             /\ ((startPc = "loop" /\ statusAt # "panic") => ENABLED FlagReturn))
    /\ [][(stopPc = "returned") =>
             /\ round' = round
             /\ issued' = issued
             /\ (startPc = "wait" => startPc' \in {"wait", "sleep"})
             /\ (startPc = "sleep" => startPc' \in {"sleep", "loop"})
             /\ (startPc = "loop" => startPc' \in {"loop", "returned"})]_vars
    /\ [][(startPc # "returned" /\ startPc' = "returned") =>
             (startPc = "loop" /\ stopPc = "returned")]_vars

\* C37 happens: Stop() was called during the wait of the second round and
\* Start() has returned after that round, its sleep included.
ReturnedAfterRoundOfStop ==
    /\ startPc = "returned"
    /\ stopPc = "returned"
    /\ stopInRound
    /\ round = 2
    /\ roundAtStop = 2
    /\ now = 2

----------------------------------------------------------------------------
(* Properties of the durations as text, checked under SpecDuration *)

\* whole microseconds, no nanoseconds left over
WholeMicroseconds(d) == d.nsec % TimeMicrosecond.nsec = 0

\* C31: ParseDuration reverses FormatDuration: the string FormatDuration
\* makes of a duration of whole microseconds parses back to that duration,
\* and a string FormatDuration made, parsed and formatted again, is the
\* same string.
ParseDurationReversesFormatDuration ==
    /\ (ret.op = "ParseDuration" /\ WholeMicroseconds(ret.in)) => ret.d = ret.in
    /\ (ret.op = "FormatDuration" /\ ret.after = "ParseDuration") => ret.s = ret.ins

\* C31 happens: a duration with every unit in it, some of two and three
\* digits, was formatted, parsed and formatted again.
AllUnitsFormattedTwice ==
    /\ ret.op = "FormatDuration"
    /\ ret.after = "ParseDuration"
    /\ ret.s = <<"2", "4", "h", "5", "9", "m", "5", "s", "1", "0", "0", "m", "s", "3", "µ", "s">>

\* d - (d mod roundTo), for one of the units of the time package
TruncateTo(d, roundTo) ==
    IF roundTo.sec > 0
    THEN [sec |-> (d.sec \div roundTo.sec) * roundTo.sec, nsec |-> 0]
    ELSE [sec |-> d.sec, nsec |-> (d.nsec \div roundTo.nsec) * roundTo.nsec]

\* C32: RoundDuration(d, u) for a unit u is d less its remainder by u; it
\* is never more than d.
RoundDurationTruncates ==
    ret.op = "RoundDuration" =>
        /\ ret.d = TruncateTo(ret.in, ret.roundTo)
        /\ DurationGeq(ret.in, ret.d)

\* C32 happens: 59m59s999ms999µs999ns was rounded to the hour, to nothing.
AlmostAnHourRoundedDown ==
    /\ ret.op = "RoundDuration"
    /\ ret.roundTo = TimeHour
    /\ ret.in = [sec |-> 60 * 60 - 1, nsec |-> NanosPerSecond - 1]
    /\ ret.d = Nanoseconds(0)

----------------------------------------------------------------------------
(* Properties of the standalone monitor, checked under SpecMonitor and     *)
(* SpecMonitorFair *)

\* C33: while the Config says not to show notifications, notification()
\* is not called for any host.
NoNotificationWhenOptionFalse ==
    [][(~config.ShowNotification) => (notified' = notified)]_vars

\* C34: main is at its reload or at the top of its loop only when every
\* pingServer goroutine has ended; a goroutine is started only by main's
\* turn for its host in the loop over the hosts of the Config, which gives
\* the host a new hostData (no samples, ping count 0, no DownAt) and leaves
\* the goroutine at its first test; a reload that can read the file takes the
\* file's Config and clears the change flag; and checkConfig() raises the
\* flag exactly when the watched file is newer than the one loaded.
ReloadRestartsFromNothing ==
    /\ [](mainPc \in {"reload", "start"} =>
             /\ latch = 0
             /\ \A h \in MonitorHosts : pingPc[h] \in {"none", "done"})
    /\ [][\A h \in MonitorHosts :
               (pingPc[h] \in {"none", "done"} /\ pingPc'[h] \notin {"none", "done"}) =>
                 /\ mainPc = "hosts"
                 /\ h = config.Hosts[main_x]
                 /\ host_data'[h] = NewHostData(h)
                 /\ host_data'[h].Stats = <<>>
                 /\ host_data'[h].PingCount = 0
                 /\ host_data'[h].DownAt = NoTime
                 /\ pingPc'[h] = "test"]_vars
    /\ [][(mainPc = "reload" /\ mainPc' = "start" /\ file.valid) =>
             /\ config' = file.content
             /\ config_last_write' = file.mtime
             /\ ~config_did_change']_vars
    /\ [][(~config_did_change /\ config_did_change') =>
             (mainPc = "render" /\ should_watch_config /\ file.mtime > config_last_write)]_vars
    /\ []((should_watch_config /\ file.mtime > config_last_write) =>
             checkConfig(should_watch_config, file, config_last_write, config_did_change))

\* C34 happens: after one reload main has started the hosts "a" and "b"
\* anew; "a" was down and notified of before, and has a new hostData now.
ReloadedAfterOutage ==
    /\ reloads = 1
    /\ mainPc = "render"
    /\ config.Hosts = <<"a", "b">>
    /\ notified["a"] = 1
    /\ host_data["a"] = NewHostData("a")
    /\ pingPc["a"] = "test"
    /\ pingPc["b"] = "test"

\* C40: after a reload that failed, a request is sent again to every host
\* of the Config main kept, unless the run time has ended the program.
FailedReloadResumesProbing ==
    \A h \in MonitorHosts :
        (reloadFailed /\ h \in HostsOf(config))
            ~> (pingPc[h] = "request" \/ mainPc = "fatal")

====
